---- MODULE Spec2Model ----
(***************************************************************************)
(* A model of the remote-SSH gateway (package mcp_remote_ssh):             *)
(*   - the Session Registry          (session_manager.py)                  *)
(*   - the Password Broker           (interactive_password_service.py)     *)
(*   - the Session and its read loop (session.py, password_handler.py)     *)
(*                                                                         *)
(* Each subsystem has its own specification over the shared variables:     *)
(*   Spec         the registry, every coroutine run to completion (no      *)
(*                coroutine of session_manager.py suspends: the only       *)
(*                awaited callee, SSHSession.disconnect, awaits nothing)   *)
(*   SpecOverlap  the registry with every `await session.disconnect()`     *)
(*                taken as a point where the event loop may run another    *)
(*                registry call (the widest interleaving of the awaits)    *)
(*   SpecBroker   the password broker                                      *)
(*   SpecSession  execute_command and its read loop                        *)
(***************************************************************************)
EXTENDS Integers, Sequences, FiniteSets, Bags, TLC

(***************************************************************************)
(* Bounds of the model.                                                    *)
(***************************************************************************)
\* session objects ever constructed (SSHSession instances)
MaxObjs == 3
\* readings of the wall clock (datetime.now()) range over 0..MaxTime
MaxTime == 2
\* registry calls suspended at an await at one time (SpecOverlap)
MaxRegTasks == 2
\* request_password calls made
MaxRequests == 2
\* request_password calls made when the broker runs on its own (SpecBroker)
MaxBrokerRequests == 1
\* provide_password and cancel_request calls made, all request ids together (SpecBroker)
MaxCalls == 3
\* request_password's timeout_seconds, in clock readings
timeout_seconds == 1

(***************************************************************************)
(* Program constants.                                                      *)
(***************************************************************************)
\* config.security.max_sessions, as the registry's test sets it
max_sessions == 2
\* the idle TTL, in clock readings, when config.security.session_timeout_hours is set
ttl_hours == 1

SessionIds == {"s1", "s2", "s3"}
Objs == 1..MaxObjs
\* Python's None, where a string is expected
None == "None"
\* Python's None, where a session object is expected
NoObj == 0
\* an attribute that is not set
Unset == <<>>
\* the request ids uuid4 hands out, in the order of the requests
RequestIds == 1..MaxRequests
\* the passwords a provide_password call may carry
Passwords == {"pw1", "pw2"}
\* InteractivePasswordHandler.detect_prompt: the prompt_type of what it detects.
\* Its callback is the only caller of request_password.
InteractivePromptType == "interactive"

VARIABLES
    \* ---- SessionManager ------------------------------------------------
    sessions,                \* self.sessions: session_id -> object (a function on the registered ids)
    session_creation_times,  \* self.session_creation_times: a dict in insertion order, <<[sid, t], ...>>
    session_timeout_hours,   \* config.security.session_timeout_hours: <<hours>>, or Unset
    \* ---- SSHSession objects -----------------------------------------------
    nobjs,                   \* number of SSHSession objects constructed so far
    connected,               \* live obj -> self.connected
    channel,                 \* live obj -> self.channel is not None
    last_used,               \* live obj -> self.last_used
    conn_pc,                 \* live obj -> its connect() call: "none" (no object), "new" (not called), "done"
    now,                     \* the wall clock
    \* ---- registry calls -------------------------------------------------
    reg_tasks,               \* the bag of registry calls suspended at an await (SpecOverlap only)
    reg_log,                 \* what the last registry call raised or warned: "" (nothing), an exception's name, or "oldest_removed"
    cleanup_task,            \* self._cleanup_task: "none", or where _cleanup_loop is: "sleep_300", "sleep_60", "done"
    \* ---- InteractivePasswordService ------------------------------------
    n_requests,              \* request_password calls made so far (the ids 1..n_requests are taken)
    pending_requests,        \* self.pending_requests: request_id -> the request: [timestamp, prompt_type, session_id]
    response_callbacks,      \* the keys of self.response_callbacks (each maps to its request's future)
    future,                  \* request_id -> the asyncio.Future of the request: [state, result]
    waiter,                  \* request_id -> the request_password call: [pc, ret]
    calls,                   \* request_id -> the provide_password / cancel_request calls made on it
    \* ---- the session under test and its channel (SpecSession) -----------
    permissibility_level,    \* config.security.permissibility_level
    lock,                    \* self.lock: the call that holds it, or None
    exec,                    \* call -> the frame of its execute_command: context, output_data, the loop's locals
    chan_in,                 \* the lines the remote has emitted and the session has not received yet
    remote,                  \* the lines the remote shell is still going to emit, in order
    sent,                    \* the first MaxSent writes to the channel since the last framed command, that command first
    result,                  \* what the last execute_command returned or raised; nothing while a later one runs
    history                  \* how the execute_command calls ended so far, in order

reg_vars == <<sessions, session_creation_times, session_timeout_hours, nobjs,
              connected, channel, last_used, conn_pc, reg_tasks, reg_log>>

broker_vars == <<n_requests, pending_requests, response_callbacks, future, waiter, calls>>

sess_vars == <<permissibility_level, lock, exec, chan_in, remote, sent, result, history>>

vars == <<now, reg_vars, broker_vars, sess_vars, cleanup_task>>

(***************************************************************************)
(* Helpers on the two dicts.                                               *)
(***************************************************************************)
Ids == DOMAIN sessions

RECURSIVE SeqToSet(_)
SeqToSet(s) == IF s = <<>> THEN {} ELSE {Head(s)} \cup SeqToSet(Tail(s))

\* del d[sid] on the ordered dict
RECURSIVE DictDel(_, _)
DictDel(d, sid) ==
    IF d = <<>> THEN <<>>
    ELSE IF Head(d).sid = sid THEN Tail(d)
    ELSE <<Head(d)>> \o DictDel(Tail(d), sid)

\* del self.sessions[sid]
MapDel(m, sid) == [k \in (DOMAIN m) \ {sid} |-> m[k]]

\* self.sessions[sid] = obj
MapPut(m, sid, obj) == [k \in (DOMAIN m) \cup {sid} |-> IF k = sid THEN obj ELSE m[k]]

\* self.session_creation_times[sid] = t (an existing key keeps its place)
RECURSIVE DictPut(_, _, _)
DictPut(d, sid, t) ==
    IF d = <<>> THEN <<[sid |-> sid, t |-> t]>>
    ELSE IF Head(d).sid = sid THEN <<[sid |-> sid, t |-> t]>> \o Tail(d)
    ELSE <<Head(d)>> \o DictPut(Tail(d), sid, t)

DictKeys(d) == {e.sid : e \in SeqToSet(d)}
DictGet(d, sid) == (CHOOSE e \in SeqToSet(d) : e.sid = sid).t

(***************************************************************************)
(* The part of the state the registry's coroutines work on, as a record,   *)
(* so that a coroutine's statements compose in sequence.  The fields conn, *)
(* ch, lu and pc are the attributes of the SSHSession objects, functions   *)
(* on the objects that are alive.                                          *)
(***************************************************************************)
Cur == [s |-> sessions, ct |-> session_creation_times,
        conn |-> connected, ch |-> channel, lu |-> last_used, pc |-> conn_pc]

\* the objects a registry call suspended at an await still refers to
TaskObjs(tasks) == UNION {{k.obj} \cup SeqToSet(k.rest_objs) : k \in BagToSet(tasks)}

\* the objects still referenced: the registered ones and those a suspended call holds;
\* the others are garbage
LiveObjs(s, tasks) == {s[sid] : sid \in DOMAIN s} \cup (TaskObjs(tasks) \ {NoObj})

Restrict(f, S) == [x \in (DOMAIN f) \cap S |-> f[x]]

Commit(st, tasks) ==
    LET live == LiveObjs(st.s, tasks)
    IN /\ BagCardinality(tasks) <= MaxRegTasks
       /\ sessions' = st.s
       /\ session_creation_times' = st.ct
       /\ connected' = Restrict(st.conn, live)
       /\ channel' = Restrict(st.ch, live)
       /\ last_used' = Restrict(st.lu, live)
       /\ conn_pc' = Restrict(st.pc, live)
       /\ reg_tasks' = tasks

(***************************************************************************)
(* SSHSession.__init__: connected = False, channel = None,                 *)
(* last_used = datetime.now().                                             *)
(***************************************************************************)
NewSession(st, o, t) ==
    [st EXCEPT !.conn = MapPut(st.conn, o, FALSE), !.ch = MapPut(st.ch, o, FALSE),
               !.lu = MapPut(st.lu, o, t), !.pc = MapPut(st.pc, o, "new")]

(***************************************************************************)
(* SSHSession.disconnect: connected = False; channel, client and transport *)
(* are closed and set to None.  It awaits nothing.                         *)
(***************************************************************************)
Disconnect(st, o) == [st EXCEPT !.conn[o] = FALSE, !.ch[o] = FALSE]

(***************************************************************************)
(* SessionManager._remove_oldest_session picks min() over the keys of      *)
(* session_creation_times by creation time; Python's min keeps the first   *)
(* minimal element in iteration (insertion) order.                         *)
(***************************************************************************)
RECURSIVE MinEntry(_, _)
MinEntry(d, best) ==
    IF d = <<>> THEN best
    ELSE MinEntry(Tail(d), IF Head(d).t < best.t THEN Head(d) ELSE best)

\* a bug: the least recently used session instead of the oldest
OldestByLastUsed(st) ==
    CHOOSE sid \in DictKeys(st.ct) :
        \A other \in DictKeys(st.ct) : st.lu[st.s[sid]] <= st.lu[st.s[other]]

OldestSessionId(st) == MinEntry(Tail(st.ct), Head(st.ct)).sid

\* SessionManager.get_session: self.sessions.get(session_id)
get_session(sid) == IF sid \in Ids THEN sessions[sid] ELSE NoObj

\* a bug: the session is dropped from the creation times but stays registered
DeleteCreationTimeOnly(st, sid) == [st EXCEPT !.ct = DictDel(st.ct, sid)]

\* a bug: the session is unregistered and its creation time is left behind
DeleteSessionOnly(st, sid) == [st EXCEPT !.s = MapDel(st.s, sid)]

\* the tail of remove_session: del self.sessions[sid]; del the creation time if present
DeleteEntries(st, sid) ==
    [st EXCEPT !.s = MapDel(st.s, sid), !.ct = DictDel(st.ct, sid)]

\* SessionManager.remove_session, run to completion
RemoveSessionIn(st, sid) ==
    IF sid \notin DOMAIN st.s THEN st
    ELSE LET o == st.s[sid]
             st1 == IF st.conn[o] THEN Disconnect(st, o) ELSE st
         IN DeleteEntries(st1, sid)

\* SessionManager._remove_oldest_session, run to completion
RemoveOldestIn(st) ==
    IF DOMAIN st.s = {} THEN st ELSE RemoveSessionIn(st, OldestSessionId(st))

\* a bug: the limit is tested with > instead of >=
AtCapacityOffByOne(st) == Cardinality(DOMAIN st.s) > max_sessions

\* create_session: len(self.sessions) >= self.config.security.max_sessions
AtCapacity(st) == Cardinality(DOMAIN st.s) >= max_sessions

\* the tail of create_session: a new SSHSession is registered under sid at time t
Register(st, sid, o, t) ==
    LET st1 == NewSession(st, o, t)
    IN [st1 EXCEPT !.s = MapPut(st.s, sid, o), !.ct = DictPut(st.ct, sid, t)]

RECURSIVE RemoveAllIn(_, _)
RemoveAllIn(st, sids) ==
    IF sids = <<>> THEN st
    ELSE RemoveAllIn(RemoveSessionIn(st, Head(sids)), Tail(sids))

RECURSIVE DisconnectAllIn(_, _)
DisconnectAllIn(st, os) ==
    IF os = <<>> THEN st
    ELSE DisconnectAllIn(IF st.conn[Head(os)] THEN Disconnect(st, Head(os)) ELSE st,
                         Tail(os))

\* cleanup_expired_sessions: sessions_to_remove, the ids whose age exceeds the TTL
\* (the ids of self.sessions, in the order of their insertion)
RECURSIVE ExpiredIds(_, _, _)
ExpiredIds(st, d, ttl) ==
    IF d = <<>> THEN <<>>
    ELSE (IF Head(d).sid \in DOMAIN st.s /\ now - Head(d).t > ttl
          THEN <<Head(d).sid>> ELSE <<>>) \o ExpiredIds(st, Tail(d), ttl)

\* disconnect_all_sessions: list(self.sessions.items()), the objects in insertion order
RECURSIVE SessionObjs(_, _)
SessionObjs(st, d) ==
    IF d = <<>> THEN <<>>
    ELSE (IF Head(d).sid \in DOMAIN st.s THEN <<st.s[Head(d).sid]>> ELSE <<>>)
         \o SessionObjs(st, Tail(d))

(***************************************************************************)
(* The registry's operations, each run to completion (Spec).               *)
(***************************************************************************)
\* a bug: the capacity is looked at before the id
CreateSessionEvictsFirst(sid) ==
    /\ reg_tasks = EmptyBag
    /\ IF sid \in Ids
       THEN /\ reg_log' = "ValueError"
            /\ Commit(IF AtCapacity(Cur) THEN RemoveOldestIn(Cur) ELSE Cur, EmptyBag)
            /\ UNCHANGED nobjs
       ELSE /\ nobjs < MaxObjs
            /\ LET st1 == IF AtCapacity(Cur) THEN RemoveOldestIn(Cur) ELSE Cur
               IN Commit(Register(st1, sid, nobjs + 1, now), EmptyBag)
            /\ nobjs' = nobjs + 1
            /\ reg_log' = IF AtCapacity(Cur) /\ Ids # {} THEN "oldest_removed" ELSE ""
    /\ UNCHANGED <<session_timeout_hours, now>>

CreateSession(sid) ==
    /\ reg_tasks = EmptyBag
    /\ IF sid \in Ids
       THEN /\ reg_log' = "ValueError"
            /\ UNCHANGED <<sessions, session_creation_times, connected, channel,
                           nobjs, last_used, conn_pc, reg_tasks>>
       ELSE /\ nobjs < MaxObjs
            /\ LET st1 == IF AtCapacity(Cur) THEN RemoveOldestIn(Cur) ELSE Cur
               IN Commit(Register(st1, sid, nobjs + 1, now), EmptyBag)
            /\ nobjs' = nobjs + 1
            /\ reg_log' = IF AtCapacity(Cur) /\ Ids # {} THEN "oldest_removed" ELSE ""
    /\ UNCHANGED <<session_timeout_hours, now>>

RemoveSession(sid) ==
    /\ reg_tasks = EmptyBag
    /\ Commit(RemoveSessionIn(Cur, sid), EmptyBag)
    /\ reg_log' = ""
    /\ UNCHANGED <<session_timeout_hours, nobjs, now>>

CleanupExpiredSessions ==
    /\ reg_tasks = EmptyBag
    /\ IF Ids = {}
       THEN /\ reg_log' = ""
            /\ UNCHANGED <<sessions, session_creation_times, connected, channel,
                           last_used, conn_pc, reg_tasks>>
       ELSE IF session_timeout_hours = Unset
       THEN /\ reg_log' = "AttributeError"
            /\ UNCHANGED <<sessions, session_creation_times, connected, channel,
                           last_used, conn_pc, reg_tasks>>
       ELSE /\ Commit(RemoveAllIn(Cur, ExpiredIds(Cur, session_creation_times,
                                                  session_timeout_hours[1])), EmptyBag)
            /\ reg_log' = ""
    /\ UNCHANGED <<session_timeout_hours, nobjs, now>>

DisconnectAllSessions ==
    /\ reg_tasks = EmptyBag
    /\ Commit(DisconnectAllIn(Cur, SessionObjs(Cur, session_creation_times)), EmptyBag)
    /\ reg_log' = ""
    /\ UNCHANGED <<session_timeout_hours, nobjs, now>>

(***************************************************************************)
(* SSHSession.connect, as the connect tool calls it once on the object     *)
(* create_session returned: on success the channel is open and connected   *)
(* is True (lines 98-123); on any exception connect calls disconnect and   *)
(* returns False (lines 125-128).  The registry sees a session only        *)
(* before or after the call.                                               *)
(***************************************************************************)
ConnectOk(o) ==
    /\ o \in DOMAIN conn_pc /\ conn_pc[o] = "new"
    /\ connected' = [connected EXCEPT ![o] = TRUE]
    /\ channel' = [channel EXCEPT ![o] = TRUE]
    /\ conn_pc' = [conn_pc EXCEPT ![o] = "done"]
    /\ UNCHANGED <<sessions, session_creation_times, session_timeout_hours, nobjs,
                   last_used, now, reg_tasks, reg_log>>

ConnectFail(o) ==
    /\ o \in DOMAIN conn_pc /\ conn_pc[o] = "new"
    /\ connected' = [connected EXCEPT ![o] = FALSE]
    /\ channel' = [channel EXCEPT ![o] = FALSE]
    /\ conn_pc' = [conn_pc EXCEPT ![o] = "done"]
    /\ UNCHANGED <<sessions, session_creation_times, session_timeout_hours, nobjs,
                   last_used, now, reg_tasks, reg_log>>

\* a command completes on a connected, registered session:
\* _create_command_result sets self.last_used = datetime.now()
TouchSession(sid) ==
    /\ sid \in Ids
    /\ connected[sessions[sid]] /\ channel[sessions[sid]]
    /\ last_used[sessions[sid]] # now
    /\ last_used' = [last_used EXCEPT ![sessions[sid]] = now]
    /\ UNCHANGED <<sessions, session_creation_times, session_timeout_hours, nobjs,
                   connected, channel, conn_pc, now, reg_tasks, reg_log>>

Tick ==
    /\ now < MaxTime
    /\ now' = now + 1
    /\ UNCHANGED <<sessions, session_creation_times, session_timeout_hours, nobjs,
                   connected, channel, last_used, conn_pc, reg_tasks, reg_log>>

(***************************************************************************)
(* The registry's operations with `await session.disconnect()` as a        *)
(* suspension point (SpecOverlap): the call is suspended before the body   *)
(* of disconnect() runs, and disconnect() and the statements up to the     *)
(* next await run when it is resumed.  A suspended call is a record        *)
(*   op        "create", "remove", "cleanup" or "disconnect_all"           *)
(*   sid       create_session's session_id                                 *)
(*   victim    remove_session's session_id                                 *)
(*   obj       the local `session` whose disconnect() is awaited           *)
(*   rest      cleanup_expired_sessions: the ids still to remove           *)
(*   rest_objs disconnect_all_sessions: the sessions still to visit        *)
(***************************************************************************)
Task(op, sid, victim, o, rest, rest_objs) ==
    [op |-> op, sid |-> sid, victim |-> victim, obj |-> o,
     rest |-> rest, rest_objs |-> rest_objs]

\* remove_session(sid) up to its await: the state it leaves and the suspended call, if any
RemoveFrom(st, sid, op, newsid, rest) ==
    IF sid \notin DOMAIN st.s THEN [st |-> st, task |-> EmptyBag]
    ELSE IF st.conn[st.s[sid]]
    THEN [st |-> st, task |-> SetToBag({Task(op, newsid, sid, st.s[sid], rest, <<>>)})]
    ELSE [st |-> DeleteEntries(st, sid), task |-> EmptyBag]

\* the removal loop of cleanup_expired_sessions, up to its next await
RECURSIVE CleanupFrom(_, _)
CleanupFrom(st, rest) ==
    IF rest = <<>> THEN [st |-> st, task |-> EmptyBag]
    ELSE LET r == RemoveFrom(st, Head(rest), "cleanup", None, Tail(rest))
         IN IF r.task # EmptyBag THEN r ELSE CleanupFrom(r.st, Tail(rest))

\* the loop of disconnect_all_sessions, up to its next await
RECURSIVE DisconnectAllFrom(_, _)
DisconnectAllFrom(st, os) ==
    IF os = <<>> THEN [st |-> st, task |-> EmptyBag]
    ELSE IF st.conn[Head(os)]
    THEN [st |-> st,
          task |-> SetToBag({Task("disconnect_all", None, None, Head(os), <<>>, Tail(os))})]
    ELSE DisconnectAllFrom(st, Tail(os))

\* create_session from `session = SSHSession(...)` on
FinishCreate(st, sid, tasks, log) ==
    /\ nobjs < MaxObjs
    /\ Commit(Register(st, sid, nobjs + 1, now), tasks)
    /\ nobjs' = nobjs + 1
    /\ reg_log' = log

OCreate(sid) ==
    /\ IF sid \in Ids
       THEN /\ reg_log' = "ValueError"
            /\ UNCHANGED <<sessions, session_creation_times, connected, channel,
                           nobjs, last_used, conn_pc, reg_tasks>>
       ELSE IF AtCapacity(Cur) /\ Ids # {}
       THEN LET r == RemoveFrom(Cur, OldestSessionId(Cur), "create", sid, EmptyBag)
            IN IF r.task = EmptyBag
               THEN FinishCreate(r.st, sid, reg_tasks, "oldest_removed")
               ELSE /\ Commit(r.st, reg_tasks (+) r.task)
                    /\ reg_log' = "oldest_removed"
                    /\ UNCHANGED nobjs
       ELSE FinishCreate(Cur, sid, reg_tasks, "")
    /\ UNCHANGED <<session_timeout_hours, now>>

ORemove(sid) ==
    /\ LET r == RemoveFrom(Cur, sid, "remove", None, EmptyBag)
       IN Commit(r.st, reg_tasks (+) r.task)
    /\ reg_log' = ""
    /\ UNCHANGED <<session_timeout_hours, nobjs, now>>

OCleanup ==
    /\ IF Ids = {}
       THEN /\ reg_log' = ""
            /\ UNCHANGED <<sessions, session_creation_times, connected, channel,
                           last_used, conn_pc, reg_tasks>>
       ELSE IF session_timeout_hours = Unset
       THEN /\ reg_log' = "AttributeError"
            /\ UNCHANGED <<sessions, session_creation_times, connected, channel,
                           last_used, conn_pc, reg_tasks>>
       ELSE LET r == CleanupFrom(Cur, ExpiredIds(Cur, session_creation_times,
                                                 session_timeout_hours[1]))
            IN /\ Commit(r.st, reg_tasks (+) r.task)
               /\ reg_log' = ""
    /\ UNCHANGED <<session_timeout_hours, nobjs, now>>

ODisconnectAll ==
    /\ LET r == DisconnectAllFrom(Cur, SessionObjs(Cur, session_creation_times))
       IN Commit(r.st, reg_tasks (+) r.task)
    /\ reg_log' = ""
    /\ UNCHANGED <<session_timeout_hours, nobjs, now>>

\* a suspended call is resumed: disconnect() runs and the caller continues
Resume(k) ==
    /\ k \in BagToSet(reg_tasks)
    /\ LET others == reg_tasks (-) SetToBag({k})
           st0 == Disconnect(Cur, k.obj)
       IN IF k.op = "disconnect_all"
          THEN LET r == DisconnectAllFrom(st0, k.rest_objs)
               IN /\ Commit(r.st, others (+) r.task)
                  /\ reg_log' = ""
                  /\ UNCHANGED nobjs
          ELSE IF k.victim \notin Ids
          THEN \* del self.sessions[session_id] on an id already removed
               /\ Commit(st0, others)
               /\ reg_log' = "KeyError"
               /\ UNCHANGED nobjs
          ELSE LET st1 == DeleteEntries(st0, k.victim)
               IN CASE k.op = "create" -> FinishCreate(st1, k.sid, others, "")
                    [] k.op = "remove" ->
                         /\ Commit(st1, others)
                         /\ reg_log' = ""
                         /\ UNCHANGED nobjs
                    [] k.op = "cleanup" ->
                         LET r == CleanupFrom(st1, k.rest)
                         IN /\ Commit(r.st, others (+) r.task)
                            /\ reg_log' = ""
                            /\ UNCHANGED nobjs
    /\ UNCHANGED <<session_timeout_hours, now>>

(***************************************************************************)
(* The session under test: its execute_command calls before any is made.   *)
(***************************************************************************)
\* the asyncio tasks that call execute_command on the session
Calls == {"t1", "t2"}
\* Python's None, where an exit status is expected
NoStatus == -1

\* the frame of a call that is not running.  is_sudo_command (whether the command
\* starts with sudo, all the loop uses of it), mgr, timeout_seconds and
\* max_output_bytes are the execution context; buffer, total_bytes, exit_status
\* and error (password_error / timeout_error) are output_data; elapsed is
\* time.time() - start_time, and the loop's two timestamps are kept relative to
\* start_time as well; site is the call of _handle_password_prompts the frame
\* is suspended in.  O, N, clean, size and pending tell what the remote answers
\* to the command: its output, its exit status, whether the channel held nothing
\* older at dispatch, the lines of the whole answer, and how many of them the
\* loop has not received yet.  last_recv is when channel.recv last returned
\* bytes to the call (its start, if never).
IdleCall ==
    [pc |-> "idle", is_sudo_command |-> FALSE, mgr |-> "none", timeout_seconds |-> 0,
     max_output_bytes |-> 0, elapsed |-> 0, stepped |-> FALSE,
     buffer |-> <<>>, total_bytes |-> 0, exit_status |-> NoStatus, error |-> "",
     last_output_time |-> 0, last_password_check_time |-> 0,
     sudo_password_sent |-> FALSE, site |-> "",
     O |-> <<>>, N |-> 0, clean |-> FALSE, size |-> 0, pending |-> 0, last_recv |-> 0]

\* no call has ended yet.  Beside the CommandResult's fields a result keeps what
\* the call was about: the remote's answer (O, N, premise) and the bytes the loop
\* had counted against the call's cap when it ended.
NoResult ==
    [kind |-> "none", stdout |-> <<>>, stderr |-> "", exit_status |-> NoStatus,
     truncated |-> FALSE, O |-> <<>>, N |-> 0, premise |-> FALSE,
     total_bytes |-> 0, max_output_bytes |-> 0]

\* no execute_command has been called
SessIdle ==
    /\ permissibility_level = "medium"
    /\ lock = None
    /\ exec = [t \in Calls |-> IdleCall]
    /\ chan_in = <<>>
    /\ remote = <<>>
    /\ sent = <<>>
    /\ result = NoResult
    /\ history = <<>>

RegInit ==
    /\ sessions = <<>>
    /\ session_creation_times = <<>>
    /\ session_timeout_hours \in {Unset, <<ttl_hours>>}
    /\ nobjs = 0
    /\ connected = <<>>
    /\ channel = <<>>
    /\ last_used = <<>>
    /\ conn_pc = <<>>
    /\ now = 0
    /\ reg_tasks = EmptyBag
    /\ reg_log = ""
    /\ cleanup_task = "none"

\* InteractivePasswordService.__init__: both dicts empty, no callback
BrokerInit ==
    /\ n_requests = 0
    /\ pending_requests = <<>>
    /\ response_callbacks = {}
    /\ future = [id \in RequestIds |-> [state |-> "none", result |-> None]]
    /\ waiter = [id \in RequestIds |-> [pc |-> "none", ret |-> None, deadline |-> 0]]
    /\ calls = [id \in RequestIds |-> <<>>]

Init == RegInit /\ BrokerInit /\ SessIdle

RegFrame == UNCHANGED <<broker_vars, sess_vars, cleanup_task>>

Next ==
    \/ \E sid \in SessionIds : CreateSession(sid) /\ RegFrame
    \/ \E sid \in SessionIds : RemoveSession(sid) /\ RegFrame
    \/ CleanupExpiredSessions /\ RegFrame
    \/ DisconnectAllSessions /\ RegFrame
    \/ \E o \in Objs : ConnectOk(o) /\ RegFrame
    \/ \E o \in Objs : ConnectFail(o) /\ RegFrame
    \/ \E sid \in SessionIds : TouchSession(sid) /\ RegFrame
    \/ Tick /\ RegFrame

Spec == Init /\ [][Next]_vars

NextOverlap ==
    \/ \E sid \in SessionIds : OCreate(sid) /\ RegFrame
    \/ \E sid \in SessionIds : ORemove(sid) /\ RegFrame
    \/ OCleanup /\ RegFrame
    \/ ODisconnectAll /\ RegFrame
    \/ \E k \in BagToSet(reg_tasks) : Resume(k) /\ RegFrame
    \/ \E o \in Objs : ConnectOk(o) /\ RegFrame
    \/ \E o \in Objs : ConnectFail(o) /\ RegFrame
    \/ Tick /\ RegFrame

SpecOverlap == Init /\ [][NextOverlap]_vars

(***************************************************************************)
(* SSHSession.connect step by step (SpecConnect).  connect() awaits the    *)
(* executor that dials (conn_pc "dialing"), opens the shell channel, then  *)
(* awaits _wait_for_prompt and _setup_environment (conn_pc "prompt"), and  *)
(* last sets connected.  Any holder of the object may call connect() when  *)
(* no connect() is running on it: the method tests nothing before it       *)
(* starts.  The registry's calls run to completion in between.             *)
(***************************************************************************)
ConnFrame ==
    UNCHANGED <<sessions, session_creation_times, session_timeout_hours, nobjs,
                last_used, now, reg_tasks, reg_log>>

\* connect() is called: self.client = SSHClient(), then `await run_in_executor(...)`
ConnectBegins(o) ==
    /\ o \in DOMAIN conn_pc /\ conn_pc[o] \in {"new", "done"}
    /\ conn_pc' = [conn_pc EXCEPT ![o] = "dialing"]
    /\ UNCHANGED <<connected, channel>>
    /\ ConnFrame

\* the dial succeeded: self.channel = self.transport.open_session(), get_pty,
\* invoke_shell, then `await self._wait_for_prompt()`
ConnectOpens(o) ==
    /\ o \in DOMAIN conn_pc /\ conn_pc[o] = "dialing"
    /\ channel' = [channel EXCEPT ![o] = TRUE]
    /\ conn_pc' = [conn_pc EXCEPT ![o] = "prompt"]
    /\ UNCHANGED connected
    /\ ConnFrame

\* the prompt came and the prologue was sent: self.connected = True; return True
ConnectCompletes(o) ==
    /\ o \in DOMAIN conn_pc /\ conn_pc[o] = "prompt"
    /\ connected' = [connected EXCEPT ![o] = TRUE]
    /\ conn_pc' = [conn_pc EXCEPT ![o] = "done"]
    /\ UNCHANGED channel
    /\ ConnFrame

\* the dial, the channel or the prompt wait raised: `await self.disconnect()`; return False
ConnectRaises(o) ==
    /\ o \in DOMAIN conn_pc /\ conn_pc[o] \in {"dialing", "prompt"}
    /\ connected' = [connected EXCEPT ![o] = FALSE]
    /\ channel' = [channel EXCEPT ![o] = FALSE]
    /\ conn_pc' = [conn_pc EXCEPT ![o] = "done"]
    /\ ConnFrame

NextConnect ==
    \/ \E sid \in SessionIds : CreateSession(sid) /\ RegFrame
    \/ \E sid \in SessionIds : RemoveSession(sid) /\ RegFrame
    \/ DisconnectAllSessions /\ RegFrame
    \/ \E o \in Objs : ConnectBegins(o) /\ RegFrame
    \/ \E o \in Objs : ConnectOpens(o) /\ RegFrame
    \/ \E o \in Objs : ConnectCompletes(o) /\ RegFrame
    \/ \E o \in Objs : ConnectRaises(o) /\ RegFrame
    \/ Tick /\ RegFrame

SpecConnect == Init /\ [][NextConnect]_vars

(***************************************************************************)
(* The registry's sweeper (SpecSweeper): start_cleanup_task creates the    *)
(* task that runs _cleanup_loop, which sleeps 300 seconds, calls           *)
(* cleanup_expired_sessions, and on an exception sleeps 60 seconds before  *)
(* the next round.  A reading of the clock is an hour of the TTL, so both  *)
(* sleeps end within one reading: a sleeping loop may wake at any moment,  *)
(* and as a task of the event loop it does wake.                           *)
(***************************************************************************)
SweeperFrame == UNCHANGED <<broker_vars, sess_vars>>

\* _cleanup_task is set and not done()
SweeperRunning == cleanup_task \in {"sleep_300", "sleep_60"}

\* start_cleanup_task: nothing if the task runs, else create_task(_cleanup_loop())
StartCleanupTask ==
    /\ ~SweeperRunning
    /\ cleanup_task' = "sleep_300"
    /\ UNCHANGED <<now, reg_vars>>

\* stop_cleanup_task: cancel(); CancelledError ends the loop at either sleep
StopCleanupTask ==
    /\ SweeperRunning
    /\ cleanup_task' = "done"
    /\ UNCHANGED <<now, reg_vars>>

\* _cleanup_loop: sleep(300) is over and cleanup_expired_sessions runs; the next
\* sleep is the 60 seconds of the except clause if it raised, else the 300 seconds
SweeperWakes ==
    /\ cleanup_task = "sleep_300"
    /\ CleanupExpiredSessions
    /\ cleanup_task' = IF reg_log' = "AttributeError" THEN "sleep_60" ELSE "sleep_300"

\* _cleanup_loop: the sleep(60) of the except clause is over, the loop goes round
SweeperBackoffEnds ==
    /\ cleanup_task = "sleep_60"
    /\ cleanup_task' = "sleep_300"
    /\ UNCHANGED <<now, reg_vars>>

NextSweeper ==
    \/ \E sid \in SessionIds : CreateSession(sid) /\ RegFrame
    \/ \E sid \in SessionIds : RemoveSession(sid) /\ RegFrame
    \/ \E o \in Objs : ConnectOk(o) /\ RegFrame
    \/ StartCleanupTask /\ SweeperFrame
    \/ StopCleanupTask /\ SweeperFrame
    \/ SweeperWakes /\ SweeperFrame
    \/ SweeperBackoffEnds /\ SweeperFrame
    \/ Tick /\ RegFrame

\* the event loop runs a task whose sleep is over
SweeperFairness ==
    /\ WF_vars(SweeperWakes /\ SweeperFrame)
    /\ WF_vars(SweeperBackoffEnds /\ SweeperFrame)

SpecSweeper == Init /\ [][NextSweeper]_vars /\ SweeperFairness

(***************************************************************************)
(* The connect and disconnect tools (SpecTool).  SSHConnectHandler.execute *)
(* calls create_session and then awaits session.connect() on the object it *)
(* got; while the dial is under way the call is suspended, and it is kept  *)
(* in reg_tasks as a record with op "connect", its session_id, the id its  *)
(* create_session evicted (None if none) and the object.  Other tool calls *)
(* run in between.                                                         *)
(***************************************************************************)
\* SSHConnectHandler.execute up to `await session.connect(...)`; the ValueError of
\* create_session is caught and returned as an error
ToolConnect(sid) ==
    /\ IF sid \in Ids
       THEN /\ reg_log' = "ValueError"
            /\ UNCHANGED <<sessions, session_creation_times, connected, channel,
                           nobjs, last_used, conn_pc, reg_tasks>>
       ELSE /\ nobjs < MaxObjs
            /\ LET evicts == AtCapacity(Cur) /\ Ids # {}
                   st1 == IF evicts THEN RemoveOldestIn(Cur) ELSE Cur
                   k == Task("connect", sid, IF evicts THEN OldestSessionId(Cur) ELSE None,
                             nobjs + 1, <<>>, <<>>)
               IN /\ Commit(Register(st1, sid, nobjs + 1, now), reg_tasks (+) SetToBag({k}))
                  /\ reg_log' = IF evicts THEN "oldest_removed" ELSE ""
            /\ nobjs' = nobjs + 1
    /\ UNCHANGED <<session_timeout_hours, now>>

\* connect() returned True: the handler returns success
ToolConnectSucceeds(k) ==
    /\ k \in BagToSet(reg_tasks)
    /\ Commit([Cur EXCEPT !.conn[k.obj] = TRUE, !.ch[k.obj] = TRUE, !.pc[k.obj] = "done"],
              reg_tasks (-) SetToBag({k}))
    /\ UNCHANGED <<session_timeout_hours, nobjs, now, reg_log>>

\* connect() caught an exception, called disconnect() and returned False: the
\* handler returns "Failed to establish SSH connection"
ToolConnectFails(k) ==
    /\ k \in BagToSet(reg_tasks)
    /\ Commit([Disconnect(Cur, k.obj) EXCEPT !.pc[k.obj] = "done"],
              reg_tasks (-) SetToBag({k}))
    /\ UNCHANGED <<session_timeout_hours, nobjs, now, reg_log>>

\* SSHDisconnectHandler.execute: remove_session(session_id)
ToolDisconnect(sid) ==
    /\ Commit(RemoveSessionIn(Cur, sid), reg_tasks)
    /\ reg_log' = ""
    /\ UNCHANGED <<session_timeout_hours, nobjs, now>>

NextTool ==
    \/ \E sid \in SessionIds : ToolConnect(sid) /\ RegFrame
    \/ \E k \in BagToSet(reg_tasks) : ToolConnectSucceeds(k) /\ RegFrame
    \/ \E k \in BagToSet(reg_tasks) : ToolConnectFails(k) /\ RegFrame
    \/ \E sid \in SessionIds : ToolDisconnect(sid) /\ RegFrame
    \/ Tick /\ RegFrame

SpecTool == Init /\ [][NextTool]_vars

(***************************************************************************)
(* The registry's claims.                                                  *)
(***************************************************************************)
\* C1: whatever the interleaving of create_session, remove_session,
\* cleanup_expired_sessions and disconnect_all_sessions, calls suspended at their
\* awaits included, the registry never holds more than max_sessions sessions.
C1_SessionLimit == Cardinality(Ids) <= max_sessions

\* the registry is full, a session has been evicted for a newer one, and two
\* create_session calls are suspended in their eviction at once
C1_Witness ==
    /\ Cardinality(Ids) = max_sessions
    /\ nobjs > max_sessions
    /\ BagCardinality(reg_tasks) = 2
    /\ \A k \in BagToSet(reg_tasks) : k.op = "create"

\* C8: a create_session with a fresh id on a registry holding exactly max_sessions
\* sessions removes exactly one session, one whose creation time is the earliest,
\* keeps every other session and registers the new id with the new session.
C8_EvictsOldest ==
    [][(nobjs' = nobjs + 1 /\ Cardinality(Ids) = max_sessions) =>
         \E sid \in SessionIds \ Ids, v \in Ids :
            /\ \A u \in Ids : DictGet(session_creation_times, v)
                                 <= DictGet(session_creation_times, u)
            /\ DOMAIN sessions' = (Ids \ {v}) \cup {sid}
            /\ sessions'[sid] = nobjs + 1
            /\ \A u \in Ids \ {v} : sessions'[u] = sessions[u]]_vars

\* three sessions were created with a limit of 2: the third create, of s3, removed
\* the oldest and left s2, the second
C8_Witness ==
    /\ reg_log = "oldest_removed"
    /\ nobjs = 3
    /\ Ids = {"s2", "s3"}
    /\ sessions["s2"] = 2
    /\ sessions["s3"] = 3

\* C9: after create_session(id), get_session(id) returns the session that call
\* built for as long as id stays registered, and returns nothing once the session
\* is removed by remove_session, by eviction or by expiry (get_session reads the
\* registry and assigns nothing).
C9_GetSession ==
    [][\A sid \in SessionIds :
         /\ (CreateSession(sid) /\ reg_log' # "ValueError")
                => get_session(sid)' = nobjs + 1
         /\ (get_session(sid) # NoObj /\ get_session(sid)' # NoObj)
                => get_session(sid)' = get_session(sid)
         /\ RemoveSession(sid) => get_session(sid)' = NoObj
         /\ (nobjs' = nobjs + 1 /\ reg_log' = "oldest_removed"
              /\ sid = OldestSessionId(Cur))
                => get_session(sid)' = NoObj
         /\ (CleanupExpiredSessions /\ reg_log' = "" /\ sid \in Ids
              /\ now - DictGet(session_creation_times, sid) > session_timeout_hours[1])
                => get_session(sid)' = NoObj]_vars

\* three sessions were built; get_session finds the last one under s3 and nothing
\* under s1 and s2, whose sessions are gone
C9_Witness ==
    /\ nobjs = 3
    /\ get_session("s3") = 3
    /\ get_session("s1") = NoObj
    /\ get_session("s2") = NoObj
    /\ reg_log = ""

\* C23: create_session with an id that is registered fails and leaves both registry
\* maps as they were; no session is evicted or disconnected, even when the registry
\* is at capacity.
C23_DuplicateIdFails ==
    [][\A sid \in SessionIds :
         (sid \in Ids /\ CreateSession(sid)) =>
             /\ reg_log' = "ValueError"
             /\ sessions' = sessions
             /\ session_creation_times' = session_creation_times
             /\ connected' = connected /\ channel' = channel
             /\ nobjs' = nobjs]_vars

\* the registry is full and a create_session on a registered id has just failed:
\* the two sessions built so far are both still registered
C23_Witness ==
    /\ reg_log = "ValueError"
    /\ Cardinality(Ids) = max_sessions
    /\ nobjs = max_sessions
    /\ \A sid \in Ids : sessions[sid] <= max_sessions

\* C32: in every reachable state of the registry every session_id that has a
\* creation time is a registered session, whatever create_session, remove_session,
\* the eviction and cleanup_expired_sessions did before.
C32_CreationTimesRegistered == DictKeys(session_creation_times) \subseteq Ids

\* the registry was full, create_session evicted "s1" and registered another id:
\* "s1" has left both mappings and the creation times are those of the sessions
C32_Witness ==
    /\ reg_log = "oldest_removed"
    /\ "s1" \notin Ids
    /\ "s1" \notin DictKeys(session_creation_times)
    /\ Cardinality(Ids) = max_sessions
    /\ DictKeys(session_creation_times) = Ids

\* the registered sessions created more than ttl clock readings ago
OlderThan(ttl) == {sid \in Ids : now - DictGet(session_creation_times, sid) > ttl}

\* C33: cleanup_expired_sessions returns (the number removed) after removing,
\* disconnected, every session older than the TTL and no other; the younger
\* sessions keep their registry entries, their objects and their connection state.
C33_CleanupRemovesExpired ==
    [][CleanupExpiredSessions =>
          /\ reg_log' = ""
          /\ Ids' = Ids \ OlderThan(ttl_hours)
          /\ DictKeys(session_creation_times') = Ids'
          /\ \A sid \in Ids' :
                /\ sessions'[sid] = sessions[sid]
                /\ connected'[sessions[sid]] = connected[sessions[sid]]
                /\ channel'[sessions[sid]] = channel[sessions[sid]]]_vars

\* C34: the sweeper stops only when it is cancelled (a run that raises is followed
\* by the back-off and the next round), and while it runs every session older
\* than the TTL eventually leaves the registry.
C34_SweeperRemovesExpired ==
    /\ [][(SweeperRunning /\ ~SweeperRunning') => StopCleanupTask]_vars
    /\ \A sid \in SessionIds :
          (SweeperRunning /\ sid \in OlderThan(ttl_hours))
              ~> (~SweeperRunning \/ sid \notin OlderThan(ttl_hours))

(***************************************************************************)
(* The Password Broker (InteractivePasswordService).  self.password_callback*)
(* is None, as __init__ leaves it (set_password_callback has no caller in  *)
(* the package), so request_password waits on its future with              *)
(* asyncio.wait_for.                                                       *)
(***************************************************************************)
\* asyncio.Future.done()
FutureDone(f) == f.state # "pending"

\* asyncio.Future.set_result(v): InvalidStateError unless the future is pending
SetResult(f, v) ==
    IF f.state = "pending"
    THEN [ok |-> TRUE, f |-> [state |-> "done", result |-> v]]
    ELSE [ok |-> FALSE, f |-> f]

Call(op, pw, ret) == [op |-> op, pw |-> pw, ret |-> ret]

RECURSIVE SumLen(_, _)
SumLen(f, S) ==
    IF S = {} THEN 0
    ELSE LET x == CHOOSE y \in S : TRUE IN Len(f[x]) + SumLen(f, S \ {x})

\* the calls logged so far
NCalls == SumLen(calls, RequestIds)

Logged(id, c) == calls' = [calls EXCEPT ![id] = Append(@, c)]

\* request_password up to `await asyncio.wait_for(future, timeout=timeout_seconds)`
RequestPassword(prompt_type, session_id) ==
    /\ n_requests < MaxRequests
    /\ LET id == n_requests + 1
       IN /\ n_requests' = id
          /\ pending_requests' = MapPut(pending_requests, id,
                                        [timestamp |-> now, prompt_type |-> prompt_type,
                                         session_id |-> session_id])
          /\ response_callbacks' = response_callbacks \cup {id}
          /\ future' = [future EXCEPT ![id] = [state |-> "pending", result |-> None]]
          /\ waiter' = [waiter EXCEPT ![id] = [pc |-> "waiting", ret |-> None,
                                               deadline |-> now + timeout_seconds]]
    /\ UNCHANGED <<calls, now, reg_vars>>

\* a bug: the password is stored whether or not the future is done
ProvidePasswordOverwrites(id, pw) ==
    /\ NCalls < MaxCalls
    /\ IF id \notin response_callbacks
       THEN Logged(id, Call("provide", pw, FALSE)) /\ UNCHANGED future
       ELSE /\ future' = [future EXCEPT ![id] = [state |-> "done", result |-> pw]]
            /\ Logged(id, Call("provide", pw, TRUE))
    /\ UNCHANGED <<n_requests, pending_requests, response_callbacks, waiter, now, reg_vars>>

\* provide_password(request_id, password)
ProvidePassword(id, pw) ==
    /\ NCalls < MaxCalls
    /\ IF id \notin response_callbacks
       THEN Logged(id, Call("provide", pw, FALSE)) /\ UNCHANGED future
       ELSE IF ~FutureDone(future[id])
       THEN /\ future' = [future EXCEPT ![id] = SetResult(@, pw).f]
            /\ Logged(id, Call("provide", pw, TRUE))
       ELSE Logged(id, Call("provide", pw, FALSE)) /\ UNCHANGED future
    /\ UNCHANGED <<n_requests, pending_requests, response_callbacks, waiter, now, reg_vars>>

\* a bug: the request is cancelled whether or not the future is done
CancelRequestOverwrites(id) ==
    /\ NCalls < MaxCalls
    /\ IF id \notin response_callbacks
       THEN Logged(id, Call("cancel", None, FALSE)) /\ UNCHANGED future
       ELSE /\ future' = [future EXCEPT ![id] = [state |-> "done", result |-> None]]
            /\ Logged(id, Call("cancel", None, TRUE))
    /\ UNCHANGED <<n_requests, pending_requests, response_callbacks, waiter, now, reg_vars>>

\* cancel_request(request_id)
CancelRequest(id) ==
    /\ NCalls < MaxCalls
    /\ IF id \notin response_callbacks
       THEN Logged(id, Call("cancel", None, FALSE)) /\ UNCHANGED future
       ELSE IF ~FutureDone(future[id])
       THEN /\ future' = [future EXCEPT ![id] = SetResult(@, None).f]
            /\ Logged(id, Call("cancel", None, TRUE))
       ELSE Logged(id, Call("cancel", None, FALSE)) /\ UNCHANGED future
    /\ UNCHANGED <<n_requests, pending_requests, response_callbacks, waiter, now, reg_vars>>

\* the timer of asyncio.wait_for is due while the future is pending
TimerDue(id) ==
    /\ waiter[id].pc = "waiting"
    /\ ~FutureDone(future[id])
    /\ now >= waiter[id].deadline

(***************************************************************************)
(* asyncio.wait_for on timeout: the future is cancelled, and TimeoutError  *)
(* is raised in request_password when the event loop next runs it.         *)
(***************************************************************************)
TimeoutExpires(id) ==
    /\ TimerDue(id)
    /\ future' = [future EXCEPT ![id].state = "cancelled"]
    /\ waiter' = [waiter EXCEPT ![id].pc = "timed_out"]
    /\ UNCHANGED <<n_requests, pending_requests, response_callbacks, calls, now, reg_vars>>

\* a bug: the finally block pops the request and leaves its future behind
ForgetRequestOnly(id) ==
    /\ pending_requests' = MapDel(pending_requests, id)
    /\ response_callbacks' = response_callbacks

\* the finally block of request_password
Forget(id) ==
    /\ pending_requests' = MapDel(pending_requests, id)
    /\ response_callbacks' = response_callbacks \ {id}

\* wait_for returns the future's result: return password
WaiterReturns(id) ==
    /\ waiter[id].pc = "waiting"
    /\ future[id].state = "done"
    /\ waiter' = [waiter EXCEPT ![id].pc = "returned", ![id].ret = future[id].result]
    /\ Forget(id)
    /\ UNCHANGED <<n_requests, future, calls, now, reg_vars>>

(***************************************************************************)
(* except asyncio.TimeoutError: future.set_result(None); return None.      *)
(* set_result raises InvalidStateError on the future wait_for cancelled;   *)
(* the exception leaves request_password through the finally block.        *)
(***************************************************************************)
WaiterTimesOut(id) ==
    /\ waiter[id].pc = "timed_out"
    /\ LET r == SetResult(future[id], None)
       IN /\ future' = [future EXCEPT ![id] = r.f]
          /\ waiter' = [waiter EXCEPT ![id] =
                          IF r.ok THEN [@ EXCEPT !.pc = "returned", !.ret = None]
                          ELSE [@ EXCEPT !.pc = "raised", !.ret = "InvalidStateError"]]
    /\ Forget(id)
    /\ UNCHANGED <<n_requests, calls, now, reg_vars>>

\* cleanup_expired_requests: expired_requests
Expired == {id \in DOMAIN pending_requests : now - pending_requests[id].timestamp > timeout_seconds}

\* cleanup_expired_requests: cancel_request and pending_requests.pop for each expired id
CleanupExpiredRequests ==
    /\ Expired # {}
    /\ future' = [id \in RequestIds |->
                    IF id \in Expired /\ id \in response_callbacks /\ ~FutureDone(future[id])
                    THEN SetResult(future[id], None).f ELSE future[id]]
    /\ calls' = [id \in RequestIds |->
                    IF id \in Expired
                    THEN Append(calls[id],
                                Call("cancel", None,
                                     id \in response_callbacks /\ ~FutureDone(future[id])))
                    ELSE calls[id]]
    /\ pending_requests' = Restrict(pending_requests, DOMAIN pending_requests \ Expired)
    /\ UNCHANGED <<n_requests, response_callbacks, waiter, now, reg_vars>>

\* time passes; a due timer of wait_for runs before anything sees a later clock
BrokerTick ==
    /\ now < MaxTime
    /\ \A id \in RequestIds : ~TimerDue(id)
    /\ now' = now + 1
    /\ UNCHANGED <<broker_vars, reg_vars>>

\* the registry is not used
RegIdle ==
    /\ sessions = <<>>
    /\ session_creation_times = <<>>
    /\ session_timeout_hours = Unset
    /\ nobjs = 0
    /\ connected = <<>>
    /\ channel = <<>>
    /\ last_used = <<>>
    /\ conn_pc = <<>>
    /\ now = 0
    /\ reg_tasks = EmptyBag
    /\ reg_log = ""
    /\ cleanup_task = "none"

InitBroker == RegIdle /\ BrokerInit /\ SessIdle

BrokerFrame == UNCHANGED <<sess_vars, cleanup_task>>

NextBroker ==
    \/ n_requests < MaxBrokerRequests /\ RequestPassword(InteractivePromptType, "s1") /\ BrokerFrame
    \/ \E id \in RequestIds, pw \in Passwords : ProvidePassword(id, pw) /\ BrokerFrame
    \/ \E id \in RequestIds : CancelRequest(id) /\ BrokerFrame
    \/ \E id \in RequestIds : TimeoutExpires(id) /\ BrokerFrame
    \/ \E id \in RequestIds : WaiterReturns(id) /\ BrokerFrame
    \/ \E id \in RequestIds : WaiterTimesOut(id) /\ BrokerFrame
    \/ CleanupExpiredRequests /\ BrokerFrame
    \/ BrokerTick /\ BrokerFrame

SpecBroker == InitBroker /\ [][NextBroker]_vars

(***************************************************************************)
(* The broker's claims.                                                    *)
(***************************************************************************)
\* the positions of the calls on id with this op that returned True
TrueCalls(id, op) == {i \in DOMAIN calls[id] : calls[id][i].op = op /\ calls[id][i].ret}

Fulfilled(id) == TrueCalls(id, "provide") # {}
Cancelled(id) == TrueCalls(id, "cancel") # {}
TimedOut(id) == future[id].state = "cancelled"
Outcomes(id) == {o \in {"fulfilled", "cancelled", "timed_out"} :
                    \/ o = "fulfilled" /\ Fulfilled(id)
                    \/ o = "cancelled" /\ Cancelled(id)
                    \/ o = "timed_out" /\ TimedOut(id)}

C7_TimeoutReturnsNone ==
    \A id \in RequestIds :
        TimedOut(id) =>
            \/ waiter[id].pc = "timed_out"
            \/ /\ waiter[id].pc = "returned"
               /\ waiter[id].ret = None
               /\ id \notin DOMAIN pending_requests
               /\ id \notin response_callbacks

\* request_password has left its frame: it returned or it raised
Left(id) == waiter[id].pc \in {"returned", "raised"}

\* C31: whenever request_password has returned or raised (fulfilled, cancelled,
\* timed out or failed), its request_id is neither in pending_requests nor in
\* response_callbacks, so get_pending_requests does not list it.
C31_ReturnedNotPending ==
    \A id \in RequestIds :
        Left(id) => id \notin DOMAIN pending_requests /\ id \notin response_callbacks

\* a request_password call timed out and raised out of its except clause, a
\* provide_password made afterwards found no such request, and both maps are empty
C31_Witness ==
    \E id \in RequestIds :
        /\ waiter[id].pc = "raised"
        /\ calls[id] = <<Call("provide", "pw1", FALSE)>>
        /\ pending_requests = <<>>
        /\ response_callbacks = {}

\* C35: cleanup_expired_requests resolves every pending request older than its
\* timeout_seconds (one that nobody has answered or cancelled) with None and drops
\* it from the pending listing, and leaves every other pending request listed
\* with its future as it was.
C35_CleanupResolvesExpired ==
    [][CleanupExpiredRequests =>
          /\ \A id \in Expired :
                /\ future[id].state # "done" =>
                       future'[id] = [state |-> "done", result |-> None]
                /\ id \notin DOMAIN pending_requests'
          /\ \A id \in (DOMAIN pending_requests) \ Expired :
                /\ id \in DOMAIN pending_requests'
                /\ future'[id] = future[id]]_vars

(***************************************************************************)
(* The Session: execute_command and its read loop (session.py), with the   *)
(* password handlers (password_handler.py).                                *)
(*                                                                         *)
(* Channel text is a sequence of lines, each one of:                       *)
(*   "o"       hello                                                       *)
(*   "pw"      Password:                                                   *)
(*   "sudopw"  [sudo] password for u:                                      *)
(*   "$"       $                      (the prompt PS1 on a line of its own)*)
(*   "S0" "S1" __EXIT_STATUS:0__ , __EXIT_STATUS:1__                       *)
(*   "Sesc"    __EXIT_STATUS:<ESC>[0m1__     (a colour code in the middle) *)
(*   "secret"  forty letters and digits in a row                           *)
(*   "apikey"  sk- followed by forty-eight letters and digits              *)
(*   "cnf"     bash: hunter2: command not found                            *)
(*   "notty"   sudo: no tty present and no askpass program specified       *)
(*   "[REDACTED_TOKEN]", "sk-[REDACTED_TOKEN]", "[REDACTED_API_KEY]" and   *)
(*   "... [output truncated]" are written by the session itself.           *)
(* "WAIT" in `remote` is not a line: the remote program reads its terminal *)
(* and emits nothing until a password line arrives.  "RESET" in `chan_in`  *)
(* is not a line either: the connection has dropped, and reading from or   *)
(* writing to the channel raises.                                          *)
(* Sizes are counted in lines; the clock is read in whole seconds.          *)
(***************************************************************************)
\* the session object under test
Self == 1

\* scaled sizes, in lines
\* channel.recv(4096): the most one chunk holds
recv_size == 2
\* config.security.max_output_lines
max_output_lines == 2
\* complaints the shell emits about stray input lines
MaxStray == 1
\* execute_command calls made
MaxCmds == 2
\* read loops that a session runs
MaxLoops == 2
\* writes to the channel that `sent` keeps
MaxSent == 3

\* the loop's thresholds, in seconds
\* `(time.time() - last_password_check_time) > 1` in the hanging branch
hanging_check_interval == 1
\* max_wait_time = 3.0
max_wait_time == 3
\* _is_hanging: `time.time() - last_output_time > 10`
hanging_seconds == 10
\* _sanitize_command: max_length = 1000 octets, counted here in tokens
max_length == 4
\* `> 0.5` (the periodic password check) and `> initial_wait_time`, which is 0.5,
\* of a whole number of seconds
MoreThanHalfASecond(d) == d >= 1

\* the timeouts (timeout_ms, in seconds) and byte caps (max_bytes, in lines) a caller passes
Timeouts == {2, 12}
ByteCaps == {2, 8}
\* a password manager is created iff a sudo password is known or interactive
\* prompting is enabled: "sudo" has the SudoPasswordHandler (first in the chain),
\* "interactive" only the InteractivePasswordHandler
Managers == {"none", "sudo", "interactive"}
\* what the interactive handler's callback comes back with
Answers == {"password", "cancelled", "error"}

\* re.search of a password cue (`Password:`, `[sudo] password for ...:`, IGNORECASE)
IsCue(l) == l \in {"pw", "sudopw"}
HasCue(text) == \E i \in 1..Len(text) : IsCue(text[i])

\* re.search of the patterns that the session itself looks for: the password cues
\* and `sudo: no tty present and no askpass program specified`
KnownPrompt(l) == l \in {"pw", "sudopw", "notty"}
HasKnownPrompt(text) == \E i \in 1..Len(text) : KnownPrompt(text[i])

\* `'__EXIT_STATUS:' in buffer`
HasMarker(text) == \E i \in 1..Len(text) : text[i] \in {"S0", "S1", "Sesc"}
\* re.search(r'__EXIT_STATUS:(\d+)__', line)
MatchesSentinel(l) == l \in {"S0", "S1"}
\* int(match.group(1))
SentinelValue(l) == IF l = "S1" THEN 1 ELSE 0
\* the leftmost match in the buffer
FirstSentinel(text) ==
    text[CHOOSE i \in 1..Len(text) :
            /\ MatchesSentinel(text[i])
            /\ \A j \in 1..(i - 1) : ~MatchesSentinel(text[j])]

\* re.sub(r'__EXIT_STATUS:\d+__\s*', '', buffer): the lines the pattern matches
\* go; the digits of "Sesc" do not follow the colon, so it stays
SubSentinel(text) == SelectSeq(text, LAMBDA l : ~MatchesSentinel(l))

\* _clean_output: lines are stripped; empty lines and lines the prompt pattern
\* matches are dropped; then the colour codes are removed from the lines kept
RECURSIVE CleanOutput(_)
CleanOutput(text) ==
    IF text = <<>> THEN <<>>
    ELSE IF Head(text) = "$" THEN CleanOutput(Tail(text))
    ELSE IF Head(text) = "Sesc" THEN <<"S1">> \o CleanOutput(Tail(text))
    ELSE <<Head(text)>> \o CleanOutput(Tail(text))

\* SecurityManager.secret_patterns, in the order of the table: the base64-like
\* pattern `[A-Za-z0-9+/]{40,}={0,2}` and the API-key pattern `sk-[A-Za-z0-9]{48}`
secret_patterns == <<"base64", "api_key">>

\* pattern.sub(replacement, line): the base64-like pattern matches forty or more
\* letters and digits wherever they stand, the forty-eight after `sk-` included;
\* the API-key pattern matches only with the `sk-` in front
Sub(pattern, line) ==
    CASE pattern = "base64" /\ line = "secret" -> "[REDACTED_TOKEN]"
      [] pattern = "base64" /\ line = "apikey" -> "sk-[REDACTED_TOKEN]"
      [] pattern = "api_key" /\ line = "apikey" -> "[REDACTED_API_KEY]"
      [] OTHER -> line

\* the loop of redact_secrets over the table, on one line
RECURSIVE SubAll(_, _)
SubAll(patterns, line) ==
    IF patterns = <<>> THEN line
    ELSE SubAll(Tail(patterns), Sub(Head(patterns), line))

\* SecurityManager.redact_secrets
redact_secrets(text) == [i \in 1..Len(text) |-> SubAll(secret_patterns, text[i])]

\* _limit_output_lines
LimitOutputLines(text, already_truncated) ==
    IF Len(text) > max_output_lines
    THEN [stdout |-> SubSeq(text, 1, max_output_lines) \o <<"... [output truncated]">>,
          truncated |-> TRUE]
    ELSE [stdout |-> text, truncated |-> already_truncated]

(***************************************************************************)
(* The policy engine's validate_command.  A command is its shell words.    *)
(***************************************************************************)
Commands ==
    {<<>>, <<"ls">>, <<"ls", ";", "id">>, <<"sudo", "id">>, <<"dd">>,
     <<"rm", "-rf", "/">>, <<"rm", "-rf", "/tmp/x">>, <<"fdisk", "/dev/sdX">>}

Levels == {"low", "medium", "high"}

\* a bug: nothing is always denied
AlwaysDeniedNothing == {}

\* always_denied_commands: `rm -rf /`, `fdisk /dev/sdX`
AlwaysDenied == {<<"rm", "-rf", "/">>, <<"fdisk", "/dev/sdX">>}

\* low_permissibility_commands, medium_permissibility_commands,
\* high_permissibility_commands: the identifiers that the commands above use
LowCommands == {"ls", "id"}
MediumCommands == {"rm", "fdisk"}
HighCommands == {"sudo"}

\* get_allowed_commands: the effective allow-set of a level
AllowSet(level) ==
    CASE level = "low" -> LowCommands
      [] level = "medium" -> LowCommands \cup MediumCommands
      [] OTHER -> LowCommands \cup MediumCommands \cup HighCommands

HasWord(command, w) == \E i \in 1..Len(command) : command[i] = w

\* low_permissibility_patterns, medium_permissibility_patterns,
\* high_permissibility_patterns.  "chain" is the class of metacharacters, "sudo"
\* is `\bsudo\b`, "rm_root" is `rm\s+-rf\s+/` and "rm_root$" is `rm\s+-rf\s+/$`;
\* the patterns of dd, mkfs and fdisk on /dev/sd[a-z] come in the same two forms
\* as rm's and match none of the commands above.
\* a bug: the low level lets the metacharacters through
LowPatternsNoChain == {"sudo", "rm_root"}

LowPatterns == {"chain", "sudo", "rm_root"}
\* a bug: the medium level loses the patterns of the low level
MediumPatternsNone == {}

MediumPatterns == {"rm_root"}
HighPatterns == {"rm_root$"}

\* get_denied_patterns
DeniedPatterns(level) ==
    CASE level = "low" -> LowPatterns
      [] level = "medium" -> MediumPatterns
      [] OTHER -> HighPatterns

\* re.search(pattern, command)
Matches(pattern, command) ==
    LET rm_at(i) == command[i] = "rm" /\ command[i + 1] = "-rf" /\ command[i + 2] \in {"/", "/tmp/x"}
    IN CASE pattern = "chain" ->
                \/ HasWord(command, ";")
                \/ \E i \in 1..(Len(command) - 1) : command[i] = "&" /\ command[i + 1] = "&"
         [] pattern = "sudo" -> HasWord(command, "sudo")
         [] pattern = "rm_root" -> \E i \in 1..(Len(command) - 2) : rm_at(i)
         [] OTHER -> Len(command) >= 3 /\ rm_at(Len(command) - 2) /\ command[Len(command)] = "/"

\* the dangerous patterns of a level, on the raw text
Dangerous(command, level) == \E pattern \in DeniedPatterns(level) : Matches(pattern, command)

\* _sanitize_command: NUL bytes are removed, then the text is cut to max_length.
\* A command is a sequence of tokens: its words, ";" and "&" (two "&" in a row
\* are `&&`), and "NUL", a NUL byte inside the text.
SanitizeCommand(command) ==
    LET stripped == SelectSeq(command, LAMBDA x : x # "NUL")
    IN IF Len(stripped) > max_length THEN SubSeq(stripped, 1, max_length) ELSE stripped

\* none of the commands has a registered argument pattern set; every check reads
\* the raw command, and the sanitised form is made last
ValidateCommand(command, level) ==
    IF command = <<>> THEN [allowed |-> FALSE, reason |-> "empty", sanitized_cmd |-> <<>>]
    ELSE IF command \in AlwaysDenied
    THEN [allowed |-> FALSE, reason |-> "denied", sanitized_cmd |-> <<>>]
    ELSE IF command[1] \notin AllowSet(level)
    THEN [allowed |-> FALSE, reason |-> "not allowed", sanitized_cmd |-> <<>>]
    ELSE IF Dangerous(command, level)
    THEN [allowed |-> FALSE, reason |-> "dangerous pattern", sanitized_cmd |-> <<>>]
    ELSE [allowed |-> TRUE, reason |-> "", sanitized_cmd |-> SanitizeCommand(command)]

(***************************************************************************)
(* The remote shell.  It answers the framed command                        *)
(* `set +e; <cmd>; echo __EXIT_STATUS:$?__` with the command's output O    *)
(* and the sentinel line of its exit status N; sudo may first prompt for   *)
(* the password and wait for it.                                           *)
(***************************************************************************)
Outputs == {<<"o">>, <<"pw">>, <<"Sesc">>, <<"secret", "$", "o", "o">>}

\* `command.strip().startswith('sudo')`
IsSudo(command) == command # <<>> /\ command[1] = "sudo"

Answer(pre, O, N) == [pre |-> pre, O |-> O, N |-> N]

\* every output with exit status 0, the plain one also with exit status 1; sudo
\* without a terminal says so and fails
AnswersTo(command) ==
    {Answer(pre, O, N) : pre \in {<<>>} \cup (IF IsSudo(command) THEN {<<"sudopw", "WAIT">>} ELSE {}),
                         O \in Outputs, N \in {0}}
    \cup {Answer(pre, <<"o">>, 1) :
             pre \in {<<>>} \cup (IF IsSudo(command) THEN {<<"sudopw", "WAIT">>} ELSE {})}
    \cup (IF IsSudo(command) THEN {Answer(<<>>, <<"notty">>, 1)} ELSE {})

AnswerText(a) == a.pre \o a.O \o <<IF a.N = 0 THEN "S0" ELSE "S1">>

NLines(text) == Cardinality({i \in 1..Len(text) : text[i] # "WAIT"})

\* the remote takes a password line: the program waiting for it reads it; with no
\* program waiting the shell runs it as a command once the running one has ended
RECURSIVE DropFirstWait(_)
DropFirstWait(text) ==
    IF text = <<>> THEN <<>>
    ELSE IF Head(text) = "WAIT" THEN Tail(text)
    ELSE <<Head(text)>> \o DropFirstWait(Tail(text))

TakesLine(text) ==
    IF HasWord(text, "WAIT") THEN DropFirstWait(text)
    ELSE IF Cardinality({i \in 1..Len(text) : text[i] = "cnf"}) < MaxStray THEN Append(text, "cnf")
    ELSE text

(***************************************************************************)
(* One iteration of the read loop, on the record                           *)
(*   w = [c: the call's frame, in: chan_in, rem: remote, out: sent,        *)
(*        ch: self.channel is not None]                                    *)
(* The iteration runs up to the next `await asyncio.sleep`, or up to the   *)
(* await of the interactive handler's callback (pc "asking"), or to the    *)
(* end of the loop (pc "return"), or to an exception (pc "raised": an      *)
(* attribute of the channel is used after disconnect set it to None).      *)
(***************************************************************************)
Min(a, b) == IF a < b THEN a ELSE b
Max(a, b) == IF a < b THEN b ELSE a

\* a write to the channel is recorded
Written(out, what) == IF Len(out) < MaxSent THEN Append(out, what) ELSE out

World(c) == [c |-> c, in |-> chan_in, rem |-> remote, out |-> sent, ch |-> channel[Self]]

Stopped(w) == w.c.pc \in {"asking", "raised"}

\* the connection behind the channel has dropped
Reset(text) == \E i \in 1..Len(text) : text[i] = "RESET"

\* self.channel.send(password + '\n'); output_data['buffer'] = ""
SendPassword(w) ==
    IF ~w.ch \/ Reset(w.in) THEN [w EXCEPT !.c.pc = "raised"]
    ELSE [w EXCEPT !.out = Written(@, "password"), !.rem = TakesLine(@), !.c.buffer = <<>>]

PasswordError(w, error) == [w EXCEPT !.c.error = error, !.c.exit_status = 1]

\* a bug: the interactive handler is added before the sudo handler
HandlersInteractiveFirst(mgr) ==
    CASE mgr = "sudo" -> <<"InteractivePasswordHandler", "SudoPasswordHandler">>
      [] mgr = "interactive" -> <<"InteractivePasswordHandler">>
      [] OTHER -> <<>>

\* create_password_manager: the handlers in the order they are added, the sudo
\* handler when a sudo password is given, then the interactive handler
Handlers(mgr) ==
    CASE mgr = "sudo" -> <<"SudoPasswordHandler", "InteractivePasswordHandler">>
      [] mgr = "interactive" -> <<"InteractivePasswordHandler">>
      [] OTHER -> <<>>

\* detect_prompt: every password cue is among the patterns of either handler
Detects(handler, text) == HasCue(text)

\* detect_and_handle_prompt: the first handler of the chain that detects a prompt
RECURSIVE FirstDetecting(_, _)
FirstDetecting(handlers, text) ==
    IF handlers = <<>> THEN None
    ELSE IF Detects(Head(handlers), text) THEN Head(handlers)
    ELSE FirstDetecting(Tail(handlers), text)

\* _handle_password_with_manager, up to the await of the interactive callback
HandlePasswordWithManager(w, site) ==
    IF w.c.is_sudo_command /\ w.c.buffer = <<>> /\ w.c.mgr = "sudo"
    THEN SendPassword(w)
    ELSE LET handler == FirstDetecting(Handlers(w.c.mgr), w.c.buffer)
         IN CASE handler = "SudoPasswordHandler" -> SendPassword(w)
              [] handler = "InteractivePasswordHandler" ->
                    [w EXCEPT !.c.pc = "asking", !.c.site = site]
              [] OTHER -> w

\* _check_for_password_prompt_without_manager
CheckForPasswordPromptWithoutManager(w) ==
    IF HasKnownPrompt(w.c.buffer) THEN PasswordError(w, "Password required but not provided") ELSE w

\* _handle_password_prompts
HandlePasswordPrompts(w, site) ==
    IF w.c.mgr # "none" THEN HandlePasswordWithManager(w, site)
    ELSE CheckForPasswordPromptWithoutManager(w)

\* InteractivePasswordHandler.handle_prompt after its callback, and the rest of
\* _handle_password_with_manager
HandleAnswer(w, answer) ==
    CASE answer = "password" -> SendPassword(w)
      [] answer = "cancelled" -> PasswordError(w, "Password request was cancelled")
      [] OTHER -> PasswordError(w, "Password callback error")

\* _check_exit_status
CheckExitStatus(w) ==
    IF HasMarker(w.c.buffer) /\ \E i \in 1..Len(w.c.buffer) : MatchesSentinel(w.c.buffer[i])
    THEN [w EXCEPT !.c.exit_status = SentinelValue(FirstSentinel(w.c.buffer)),
                   !.c.buffer = SubSentinel(w.c.buffer)]
    ELSE w

\* _should_stop_reading
ShouldStopReading(c) ==
    \/ c.exit_status # NoStatus
    \/ c.total_bytes > c.max_output_bytes
    \/ c.error # ""

\* the end of an iteration: `if self._should_stop_reading(...): break`, else
\* `await asyncio.sleep(0.01)`
PhaseEnd(w) ==
    IF ShouldStopReading(w.c) THEN [w EXCEPT !.c.pc = "return"]
    ELSE [w EXCEPT !.c.pc = "reading", !.c.stepped = TRUE]

\* after a sudo strategy's _handle_password_prompts
AfterSudo(w) ==
    [w EXCEPT !.c.sudo_password_sent = TRUE, !.c.last_password_check_time = w.c.elapsed]

\* the three strategies of the proactive sender
SudoStrategy(c) ==
    \/ HasCue(c.buffer)
    \/ MoreThanHalfASecond(c.elapsed) /\ c.buffer = <<>>
    \/ c.elapsed > max_wait_time

PhaseSudo(w) ==
    IF w.c.is_sudo_command /\ ~w.c.sudo_password_sent /\ w.c.mgr # "none" /\ SudoStrategy(w.c)
    THEN LET h == HandlePasswordPrompts(w, "sudo")
         IN IF Stopped(h) THEN h ELSE PhaseEnd(AfterSudo(h))
    ELSE PhaseEnd(w)

\* after the periodic _handle_password_prompts
AfterPeriodic(w) == [w EXCEPT !.c.last_password_check_time = w.c.elapsed]

PhasePeriodic(w) ==
    IF w.c.mgr # "none" /\ MoreThanHalfASecond(w.c.elapsed - w.c.last_password_check_time)
    THEN LET h == HandlePasswordPrompts(w, "periodic")
         IN IF Stopped(h) THEN h ELSE PhaseSudo(AfterPeriodic(h))
    ELSE PhaseSudo(w)

\* _process_stdout_chunk up to _handle_password_prompts: the chunk is appended and
\* counted; a sudo command's chunk with a password cue makes the session write an
\* empty line.  Its assignment to last_output_time is to its own parameter.
Recv(w) ==
    LET n == Min(Len(w.in), recv_size)
        chunk == SubSeq(w.in, 1, n)
    IN [w EXCEPT !.in = SubSeq(w.in, n + 1, Len(w.in)),
                 !.c.buffer = @ \o chunk,
                 !.c.total_bytes = @ + n,
                 !.c.pending = Max(0, @ - n),
                 !.c.last_recv = w.c.elapsed,
                 !.out = IF w.c.is_sudo_command /\ HasKnownPrompt(chunk) THEN Written(@, "newline") ELSE @]

\* _process_stdout_chunk and what follows it in the iteration; a pty carries the
\* remote's stderr in the same stream, so _process_stderr_chunk finds nothing
PhaseChunk(w) ==
    IF ~w.ch \/ Reset(w.in) THEN [w EXCEPT !.c.pc = "raised"]
    ELSE IF w.in = <<>> THEN PhasePeriodic(w)
    ELSE LET h == HandlePasswordPrompts(Recv(w), "chunk")
         IN IF Stopped(h) THEN h ELSE PhasePeriodic(CheckExitStatus(h))

\* after the hanging branch's _handle_password_prompts: both timestamps are
\* reset, `await asyncio.sleep(0.1)`, `continue`
AfterHang(w) ==
    [w EXCEPT !.c.last_password_check_time = w.c.elapsed, !.c.last_output_time = w.c.elapsed,
              !.c.pc = "reading", !.c.stepped = TRUE]

\* a bug: the hanging branch leaves the loop without a timeout result
TimeoutResultUnmarked(w) ==
    [w EXCEPT !.c.pc = "return"]

\* _create_timeout_result / _create_sudo_timeout_result
TimeoutResult(w) ==
    [w EXCEPT !.c.buffer = <<>>, !.c.total_bytes = 0, !.c.exit_status = 1,
              !.c.error = IF w.c.is_sudo_command THEN "Sudo command timed out" ELSE "Command timed out",
              !.c.pc = "return"]

\* _is_hanging
IsHanging(c) == c.elapsed - c.last_output_time > hanging_seconds

PhaseHang(w) ==
    IF IsHanging(w.c)
    THEN IF w.c.mgr # "none" /\ w.c.elapsed - w.c.last_password_check_time > hanging_check_interval
         THEN LET h == HandlePasswordPrompts(w, "hang")
              IN IF Stopped(h) THEN h ELSE AfterHang(h)
         ELSE TimeoutResult(w)
    ELSE PhaseChunk(w)

\* `while time.time() < end_time`
Iteration(w) ==
    IF ~(w.c.elapsed < w.c.timeout_seconds) THEN [w EXCEPT !.c.pc = "return"]
    ELSE PhaseHang(w)

\* the iteration goes on after the interactive callback has come back
Resumed(w, answer) ==
    LET h == HandleAnswer([w EXCEPT !.c.pc = "reading", !.c.site = ""], answer)
    IN IF Stopped(h) THEN h
       ELSE CASE w.c.site = "hang" -> AfterHang(h)
              [] w.c.site = "chunk" -> PhasePeriodic(CheckExitStatus(h))
              [] w.c.site = "periodic" -> PhaseSudo(AfterPeriodic(h))
              [] OTHER -> PhaseEnd(AfterSudo(h))

(***************************************************************************)
(* execute_command.                                                        *)
(***************************************************************************)
\* a call sits in `with self.lock:` on a lock that is held: threading.Lock blocks
\* the thread, which is the event loop's, so no coroutine runs any more
LoopBlocked == \E t \in Calls : exec[t].pc = "blocked"

\* the read loops that have ended
LoopsEnded == Cardinality({i \in 1..Len(history) : history[i] \notin {"rejected", "not connected"}})

InFlight(t) == exec[t].pc \in {"reading", "asking"}

\* _create_command_result
CreateCommandResult(c) ==
    IF c.error # ""
    THEN [stdout |-> <<>>, stderr |-> c.error, exit_status |-> 1, truncated |-> FALSE]
    ELSE LET limited == LimitOutputLines(redact_secrets(CleanOutput(c.buffer)), FALSE)
         IN [stdout |-> limited.stdout, stderr |-> "", exit_status |-> c.exit_status,
             truncated |-> limited.truncated]

\* the remote emitted the call's whole answer, on a channel that held nothing
\* older, and the loop received it before it ended; the answer is within the caps
Premise(c) ==
    /\ c.clean /\ c.pending = 0
    /\ c.size <= c.max_output_bytes
    /\ Len(c.O) <= max_output_lines

Ended(how) == history' = Append(history, how)

\* execute_command returns: the lock is released; last_used is set unless the
\* result is a timeout's or a password error's
Returns(t, w) ==
    LET r == CreateCommandResult(w.c)
    IN /\ result' = [kind |-> "result", stdout |-> r.stdout, stderr |-> r.stderr,
                     exit_status |-> r.exit_status, truncated |-> r.truncated,
                     O |-> w.c.O, N |-> w.c.N, premise |-> Premise(w.c),
                     total_bytes |-> w.c.total_bytes,
                     max_output_bytes |-> w.c.max_output_bytes]
       /\ Ended(IF w.c.error = "" THEN "returned" ELSE w.c.error)
       /\ last_used' = IF w.c.error = "" THEN [last_used EXCEPT ![Self] = now] ELSE last_used
       /\ exec' = [exec EXCEPT ![t] = IdleCall]
       /\ lock' = None
       /\ chan_in' = w.in /\ remote' = w.rem /\ sent' = w.out
       /\ UNCHANGED <<connected, channel>>

\* a bug: an exception leaves execute_command with the lock still held
RaisesInsideHolding(t, w) ==
    /\ result' = [NoResult EXCEPT !.kind = "raised",
                                  !.stderr = IF w.ch THEN "OSError" ELSE "AttributeError"]
    /\ Ended("raised")
    /\ exec' = [exec EXCEPT ![t] = IdleCall]
    /\ lock' = lock
    /\ chan_in' = w.in /\ remote' = w.rem /\ sent' = w.out
    /\ UNCHANGED <<connected, channel, last_used>>

\* an exception leaves the `with self.lock:` block and execute_command
RaisesInside(t, w) ==
    /\ result' = [NoResult EXCEPT !.kind = "raised",
                                  !.stderr = IF w.ch THEN "OSError" ELSE "AttributeError"]
    /\ Ended("raised")
    /\ exec' = [exec EXCEPT ![t] = IdleCall]
    /\ lock' = None
    /\ chan_in' = w.in /\ remote' = w.rem /\ sent' = w.out
    /\ UNCHANGED <<connected, channel, last_used>>

\* the frame is suspended at an await
Suspends(t, w) ==
    /\ exec' = [exec EXCEPT ![t] = w.c]
    /\ chan_in' = w.in /\ remote' = w.rem /\ sent' = w.out
    /\ UNCHANGED <<lock, result, history, connected, channel, last_used>>

Continue(t, w) ==
    CASE w.c.pc = "return" -> Returns(t, w)
      [] w.c.pc = "raised" -> RaisesInside(t, w)
      [] OTHER -> Suspends(t, w)

\* _validate_session_state raises
NotConnected(t) ==
    /\ result' = [NoResult EXCEPT !.kind = "raised", !.stderr = "Session not connected"]
    /\ Ended("not connected")
    /\ UNCHANGED <<lock, exec, chan_in, remote, sent, connected, channel, last_used>>

\* a bug: the command is validated after it has been sent
RejectAfterSend(t) ==
    /\ result' = [NoResult EXCEPT !.kind = "raised", !.stderr = "Command not allowed"]
    /\ Ended("rejected")
    /\ sent' = <<"command">>
    /\ remote' = remote \o <<"S1">>
    /\ UNCHANGED <<lock, exec, chan_in, connected, channel, last_used>>

\* _validate_command raises, second statement of execute_command
Reject(t) ==
    /\ result' = [NoResult EXCEPT !.kind = "raised", !.stderr = "Command not allowed"]
    /\ Ended("rejected")
    /\ UNCHANGED <<lock, exec, chan_in, remote, sent, connected, channel, last_used>>

\* a bug: the lock is not looked at
TryLockAlways(t) == TRUE

\* `with self.lock:` finds the lock free
TryLock(t) == lock = None

\* `with self.lock:` on a held lock
Blocks(t) ==
    /\ exec' = [exec EXCEPT ![t] = [IdleCall EXCEPT !.pc = "blocked"]]
    /\ UNCHANGED <<lock, chan_in, remote, sent, result, history, connected, channel, last_used>>

\* _send_command on a dropped connection: channel.send raises inside the
\* `with self.lock:` block, the `except` clause logs and raises again
SendFails(t) ==
    /\ result' = [NoResult EXCEPT !.kind = "raised", !.stderr = "OSError"]
    /\ Ended("raised")
    /\ UNCHANGED <<lock, exec, chan_in, remote, sent, connected, channel, last_used>>

\* _create_execution_context, `with self.lock:`, _send_command, and
\* _read_command_output up to its loop
Dispatch(t, command, mgr, timeout, max_bytes, a) ==
    /\ LoopsEnded < MaxLoops
    /\ lock' = t
    /\ sent' = <<"command">>
    /\ remote' = remote \o AnswerText(a)
    /\ exec' = [exec EXCEPT ![t] =
                  [IdleCall EXCEPT !.pc = "reading", !.is_sudo_command = IsSudo(command), !.mgr = mgr,
                                   !.timeout_seconds = timeout, !.max_output_bytes = max_bytes,
                                   !.O = a.O, !.N = a.N,
                                   !.clean = (chan_in = <<>> /\ remote = <<>>),
                                   !.size = NLines(AnswerText(a)),
                                   !.pending = NLines(AnswerText(a))]]
    /\ result' = NoResult
    /\ UNCHANGED <<chan_in, history, connected, channel, last_used>>

\* what the calls are made with.  The first read loop of a session is run with
\* every manager, timeout, cap and answer; a call made after a read loop has ended
\* is a plain one: not a sudo command, no password manager, the shorter timeout,
\* the larger cap, and the plain answer.
PlainAnswer == Answer(<<>>, <<"o">>, 0)
ManagersFor(n) == IF n = 0 THEN Managers ELSE {"none"}
TimeoutsFor(n) == IF n = 0 THEN Timeouts ELSE {2}
ByteCapsFor(n) == IF n = 0 THEN ByteCaps ELSE {8}
AnswersFor(n, command) ==
    IF n = 0 THEN AnswersTo(command) ELSE IF IsSudo(command) THEN {} ELSE {PlainAnswer}

\* execute_command(command, timeout_ms, max_bytes, sudo_password) is called by task t;
\* the remote's answer to the command is drawn when it is sent
ExecuteCommand(t, command) ==
    /\ exec[t].pc = "idle"
    /\ ~LoopBlocked
    /\ Len(history) + Cardinality({u \in Calls : exec[u].pc # "idle"}) < MaxCmds
    \* the first of two calls is named t1
    /\ t = "t2" => exec["t1"].pc # "idle"
    /\ IF ~(connected[Self] /\ channel[Self]) THEN NotConnected(t)
       ELSE IF ~ValidateCommand(command, permissibility_level).allowed THEN Reject(t)
       ELSE IF ~TryLock(t) THEN Blocks(t)
       ELSE IF Reset(chan_in) THEN SendFails(t)
       ELSE \E mgr \in ManagersFor(LoopsEnded), timeout \in TimeoutsFor(LoopsEnded),
               max_bytes \in ByteCapsFor(LoopsEnded), a \in AnswersFor(LoopsEnded, command) :
               Dispatch(t, ValidateCommand(command, permissibility_level).sanitized_cmd,
                        mgr, timeout, max_bytes, a)

\* the loop of _read_command_output runs an iteration
ReadLoopStep(t) ==
    /\ exec[t].pc = "reading"
    /\ ~LoopBlocked
    /\ Continue(t, Iteration(World(exec[t])))

\* the interactive callback (password_service.request_password) comes back
AskReturns(t, answer) ==
    /\ exec[t].pc = "asking"
    /\ ~LoopBlocked
    /\ Continue(t, Resumed(World(exec[t]), answer))

\* the remote emits its next line
Emit ==
    /\ ~LoopBlocked
    /\ channel[Self]
    /\ remote # <<>> /\ Head(remote) # "WAIT"
    /\ chan_in' = Append(chan_in, Head(remote))
    /\ remote' = Tail(remote)
    /\ UNCHANGED <<lock, exec, sent, result, history, connected, channel, last_used>>

\* a second passes.  The loop polls every 10 ms: it has run at the current
\* time and has taken what the channel held before the clock moves on.
SessionTick ==
    /\ ~LoopBlocked
    /\ \E t \in Calls : InFlight(t)
    /\ \A t \in Calls :
          /\ exec[t].pc = "reading" => exec[t].stepped /\ (chan_in = <<>> \/ ~channel[Self])
          /\ InFlight(t) => exec[t].elapsed <= exec[t].timeout_seconds
    /\ exec' = [t \in Calls |->
                  IF InFlight(t) THEN [exec[t] EXCEPT !.elapsed = @ + 1, !.stepped = FALSE]
                  ELSE exec[t]]
    /\ UNCHANGED <<lock, chan_in, remote, sent, result, history, connected, channel, last_used>>

\* SSHSession.disconnect, called by the registry or after a failed connect
SessionDisconnect ==
    /\ ~LoopBlocked
    /\ connected[Self]
    /\ connected' = [connected EXCEPT ![Self] = FALSE]
    /\ channel' = [channel EXCEPT ![Self] = FALSE]
    /\ UNCHANGED <<lock, exec, chan_in, remote, sent, result, history, last_used>>

\* the connection of the session drops: what the channel held is lost
ConnectionDrops ==
    /\ ~LoopBlocked
    /\ connected[Self] /\ channel[Self]
    /\ ~Reset(chan_in)
    /\ chan_in' = <<"RESET">>
    /\ remote' = <<>>
    /\ UNCHANGED <<lock, exec, sent, result, history, connected, channel, last_used>>

\* one session, registered and connected at time 0, and used at time 1; the broker is idle
InitSession ==
    /\ sessions = MapPut(<<>>, "s1", Self)
    /\ session_creation_times = DictPut(<<>>, "s1", 0)
    /\ session_timeout_hours = Unset
    /\ nobjs = 1
    /\ connected = MapPut(<<>>, Self, TRUE)
    /\ channel = MapPut(<<>>, Self, TRUE)
    /\ last_used = MapPut(<<>>, Self, 0)
    /\ conn_pc = MapPut(<<>>, Self, "done")
    /\ now = 1
    /\ reg_tasks = EmptyBag
    /\ reg_log = ""
    /\ cleanup_task = "none"
    /\ BrokerInit
    /\ permissibility_level \in Levels
    /\ lock = None
    /\ exec = [t \in Calls |-> IdleCall]
    /\ chan_in = <<>>
    /\ remote = <<>>
    /\ sent = <<>>
    /\ result = NoResult
    /\ history = <<>>

SessFrame ==
    UNCHANGED <<sessions, session_creation_times, session_timeout_hours, nobjs, conn_pc,
                now, reg_tasks, reg_log, cleanup_task, broker_vars, permissibility_level>>

NextSession ==
    \/ \E t \in Calls, command \in Commands : ExecuteCommand(t, command) /\ SessFrame
    \/ \E t \in Calls : ReadLoopStep(t) /\ SessFrame
    \/ \E t \in Calls, answer \in Answers : AskReturns(t, answer) /\ SessFrame
    \/ Emit /\ SessFrame
    \/ SessionTick /\ SessFrame
    \/ SessionDisconnect /\ SessFrame

SpecSession == InitSession /\ [][NextSession]_vars

(***************************************************************************)
(* The session on a connection that may drop.  Two sessions are registered;*)
(* one task calls execute_command on the first, with no password manager.  *)
(***************************************************************************)
\* the other session object
Other == 2

InitTransport ==
    /\ sessions = MapPut(MapPut(<<>>, "s1", Self), "s2", Other)
    /\ session_creation_times = DictPut(DictPut(<<>>, "s1", 0), "s2", 0)
    /\ session_timeout_hours = Unset
    /\ nobjs = 2
    /\ connected = MapPut(MapPut(<<>>, Self, TRUE), Other, TRUE)
    /\ channel = MapPut(MapPut(<<>>, Self, TRUE), Other, TRUE)
    /\ last_used = MapPut(MapPut(<<>>, Self, 0), Other, 0)
    /\ conn_pc = MapPut(MapPut(<<>>, Self, "done"), Other, "done")
    /\ now = 1
    /\ reg_tasks = EmptyBag
    /\ reg_log = ""
    /\ cleanup_task = "none"
    /\ BrokerInit
    /\ permissibility_level \in Levels
    /\ lock = None
    /\ exec = [t \in Calls |-> IdleCall]
    /\ chan_in = <<>>
    /\ remote = <<>>
    /\ sent = <<>>
    /\ result = NoResult
    /\ history = <<>>

\* execute_command with no password manager
TransportExecute(t, command) ==
    /\ ExecuteCommand(t, command)
    /\ exec'[t].pc = "reading" => exec'[t].mgr = "none"

NextTransport ==
    \/ \E command \in Commands : TransportExecute("t1", command) /\ SessFrame
    \/ ReadLoopStep("t1") /\ SessFrame
    \/ Emit /\ SessFrame
    \/ SessionTick /\ SessFrame
    \/ ConnectionDrops /\ SessFrame

SpecTransport == InitTransport /\ [][NextTransport]_vars

(***************************************************************************)
(* The read loop with the Password Broker behind its interactive callback: *)
(* interactive prompting is enabled and no sudo password is configured, so *)
(* the manager has the InteractivePasswordHandler only, whose callback     *)
(* awaits password_service.request_password; the operator's tools call     *)
(* provide_password and cancel_request.  One task calls                    *)
(* execute_command('sudo id').                                             *)
(***************************************************************************)
\* the request that the asking frame waits on is the last one made
AskedId == n_requests

\* password_callback: a frame that suspends in the callback has called request_password
CallbackRequests(t) ==
    IF exec'[t].pc = "asking"
    THEN RequestPassword(InteractivePromptType, "s1")
    ELSE UNCHANGED <<broker_vars, now>>

\* what InteractivePasswordHandler.handle_prompt makes of the callback's outcome
CallbackAnswer(w) ==
    IF w.pc = "raised" THEN "error" ELSE IF w.ret = None THEN "cancelled" ELSE "password"

\* sudo asks for the password, waits for it, and runs the command
SudoAnswers == {Answer(<<"sudopw", "WAIT">>, <<"o">>, N) : N \in {0, 1}}

\* execute_command('sudo id') with the default timeout and cap
PromptExecute(t) ==
    /\ ExecuteCommand(t, <<"sudo", "id">>)
    /\ exec'[t].pc = "reading" =>
          /\ exec'[t].mgr = "interactive"
          /\ exec'[t].timeout_seconds = 2 /\ exec'[t].max_output_bytes = 8
          /\ \E a \in SudoAnswers : remote' = remote \o AnswerText(a)

PromptLoopStep(t) == ReadLoopStep(t) /\ CallbackRequests(t)

\* request_password has returned or raised: the loop goes on
PromptAskReturns(t) ==
    /\ exec[t].pc = "asking"
    /\ AskedId \in RequestIds /\ waiter[AskedId].pc \in {"returned", "raised"}
    /\ AskReturns(t, CallbackAnswer(waiter[AskedId]))
    /\ CallbackRequests(t)

\* get_pending_requests: the operator answers the requests that are listed
ListedIds == DOMAIN pending_requests

PromptFrame ==
    UNCHANGED <<sessions, session_creation_times, session_timeout_hours, nobjs, conn_pc,
                reg_tasks, reg_log, cleanup_task, permissibility_level>>

NextPrompt ==
    \/ PromptExecute("t1") /\ SessFrame
    \/ PromptLoopStep("t1") /\ PromptFrame
    \/ PromptAskReturns("t1") /\ PromptFrame
    \/ Emit /\ SessFrame
    \/ SessionTick /\ SessFrame
    \/ \E id \in ListedIds, pw \in Passwords : ProvidePassword(id, pw) /\ BrokerFrame
    \/ \E id \in ListedIds : CancelRequest(id) /\ BrokerFrame
    \/ \E id \in RequestIds : TimeoutExpires(id) /\ BrokerFrame
    \/ \E id \in RequestIds : WaiterReturns(id) /\ BrokerFrame
    \/ \E id \in RequestIds : WaiterTimesOut(id) /\ BrokerFrame
    \/ BrokerTick /\ BrokerFrame

SpecPrompt == InitSession /\ [][NextPrompt]_vars

(***************************************************************************)
(* The registry at work on a session that is in use.  Two sessions are     *)
(* registered, the registry is full; one task calls execute_command('ls')  *)
(* on the session it got from get_session('s1') and keeps the object,      *)
(* other tasks call the registry while the command is suspended in its     *)
(* read loop.  disconnect() awaits nothing, so a registry call runs to its *)
(* end once it is scheduled.                                               *)
(***************************************************************************)
\* the registry's state after a call; the session object under test stays
\* referenced by the task that uses it
CommitHeld(st) ==
    LET live == LiveObjs(st.s, EmptyBag) \cup {Self}
    IN /\ sessions' = st.s
       /\ session_creation_times' = st.ct
       /\ connected' = Restrict(st.conn, live)
       /\ channel' = Restrict(st.ch, live)
       /\ last_used' = Restrict(st.lu, live)
       /\ conn_pc' = Restrict(st.pc, live)
       /\ reg_tasks' = EmptyBag

\* create_session with a fresh id: the oldest session is evicted when the registry is full
SharedCreate(sid) ==
    /\ sid \notin Ids /\ nobjs < MaxObjs
    /\ CommitHeld(Register(IF AtCapacity(Cur) THEN RemoveOldestIn(Cur) ELSE Cur,
                           sid, nobjs + 1, now))
    /\ nobjs' = nobjs + 1
    /\ reg_log' = IF AtCapacity(Cur) /\ Ids # {} THEN "oldest_removed" ELSE ""
    /\ UNCHANGED <<session_timeout_hours, now>>

SharedRemove(sid) ==
    /\ sid \in Ids
    /\ CommitHeld(RemoveSessionIn(Cur, sid))
    /\ reg_log' = ""
    /\ UNCHANGED <<session_timeout_hours, nobjs, now>>

\* cleanup_expired_sessions: config.security.session_timeout_hours is not defined
SharedCleanup ==
    /\ Ids # {} /\ session_timeout_hours = Unset /\ reg_log # "AttributeError"
    /\ reg_log' = "AttributeError"
    /\ UNCHANGED <<sessions, session_creation_times, connected, channel, last_used,
                   conn_pc, reg_tasks, session_timeout_hours, nobjs, now>>

SharedDisconnectAll ==
    /\ \E sid \in Ids : connected[sessions[sid]]
    /\ CommitHeld(DisconnectAllIn(Cur, SessionObjs(Cur, session_creation_times)))
    /\ reg_log' = ""
    /\ UNCHANGED <<session_timeout_hours, nobjs, now>>

\* execute_command('ls'), with the default timeout and cap, on the object that
\* get_session('s1') returns
SharedExecute(t) ==
    /\ get_session("s1") = Self
    /\ TransportExecute(t, <<"ls">>)
    /\ exec'[t].pc = "reading" =>
          exec'[t].timeout_seconds = 2 /\ exec'[t].max_output_bytes = 8

NextShared ==
    \/ SharedExecute("t1") /\ SessFrame
    \/ ReadLoopStep("t1") /\ SessFrame
    \/ Emit /\ SessFrame
    \/ SessionTick /\ SessFrame
    \/ \E sid \in SessionIds : SharedCreate(sid) /\ RegFrame
    \/ \E sid \in SessionIds : SharedRemove(sid) /\ RegFrame
    \/ SharedCleanup /\ RegFrame
    \/ SharedDisconnectAll /\ RegFrame

SpecShared == InitTransport /\ [][NextShared]_vars

(***************************************************************************)
(* The session and the broker under the event loop's scheduling: two tasks *)
(* call execute_command('sudo id') on the session.  The event loop runs    *)
(* every coroutine that is ready and the clocks go on, so the loop's       *)
(* iterations, the callback's return, the timer of asyncio.wait_for and    *)
(* the waiter's steps are weakly fair; the callers, the remote and the     *)
(* operator are not.                                                       *)
(***************************************************************************)
\* a second passes at the broker; the clock goes on while a request_password waits
\* for its timer
LiveTick ==
    /\ \/ now < MaxTime
       \/ \E id \in RequestIds : waiter[id].pc = "waiting" /\ now < waiter[id].deadline
    /\ \A id \in RequestIds : ~TimerDue(id)
    /\ now' = now + 1
    /\ UNCHANGED <<broker_vars, reg_vars>>

\* the tools and the broker's coroutines run on the event loop of execute_command:
\* they are served while no call sits in `with self.lock:` on a held lock
Served(A) == ~LoopBlocked /\ A

NextLive ==
    \/ \E t \in Calls : PromptExecute(t) /\ SessFrame
    \/ \E t \in Calls : PromptLoopStep(t) /\ PromptFrame
    \/ \E t \in Calls : PromptAskReturns(t) /\ PromptFrame
    \/ Emit /\ SessFrame
    \/ SessionTick /\ SessFrame
    \/ \E id \in ListedIds, pw \in Passwords : Served(ProvidePassword(id, pw)) /\ BrokerFrame
    \/ \E id \in ListedIds : Served(CancelRequest(id)) /\ BrokerFrame
    \/ \E id \in RequestIds : Served(TimeoutExpires(id)) /\ BrokerFrame
    \/ \E id \in RequestIds : Served(WaiterReturns(id)) /\ BrokerFrame
    \/ \E id \in RequestIds : Served(WaiterTimesOut(id)) /\ BrokerFrame
    \/ LiveTick /\ BrokerFrame

LiveFairness ==
    /\ \A t \in Calls : WF_vars(PromptLoopStep(t) /\ PromptFrame)
    /\ \A t \in Calls : WF_vars(PromptAskReturns(t) /\ PromptFrame)
    /\ WF_vars(SessionTick /\ SessFrame)
    /\ \A id \in RequestIds : WF_vars(Served(TimeoutExpires(id)) /\ BrokerFrame)
    /\ \A id \in RequestIds : WF_vars(Served(WaiterReturns(id)) /\ BrokerFrame)
    /\ \A id \in RequestIds : WF_vars(Served(WaiterTimesOut(id)) /\ BrokerFrame)
    /\ WF_vars(LiveTick /\ BrokerFrame)

SpecLive == InitSession /\ [][NextLive]_vars /\ LiveFairness

(***************************************************************************)
(* The session's claims.                                                   *)
(***************************************************************************)
\* part occurs in text as a run of consecutive lines
Contains(text, part) ==
    \E i \in 0..(Len(text) - Len(part)) : SubSeq(text, i + 1, i + Len(part)) = part

\* the last execute_command returned a CommandResult
Returned == result.kind = "result"

\* C2: whatever the interleaving of execute_command calls on a session, at most
\* one call is between sending its framed command to the channel and building its
\* CommandResult.
C2_MutualExclusion == Cardinality({t \in Calls : InFlight(t)}) <= 1

\* one call is reading its answer while the other waits at `with self.lock:`
C2_Witness ==
    \E t, u \in Calls : /\ exec[t].pc = "reading" /\ exec[t].buffer # <<>>
                        /\ exec[u].pc = "blocked" /\ lock = t

\* C3: when the remote emits the output O and then the sentinel of status N, before
\* the deadline and within the byte and line caps, execute_command returns
\* exit_status N and a stdout that contains O as cleaned and redacted, with and
\* without a password manager and whatever O holds.
C3_SentinelResult ==
    (Returned /\ result.premise) =>
        /\ result.exit_status = result.N
        /\ Contains(result.stdout, redact_secrets(CleanOutput(result.O)))

\* C4: on every exit path of the read loop the returned stdout holds no text of the
\* form __EXIT_STATUS:N__.
C4_NoSentinelInStdout ==
    Returned => \A i \in 1..Len(result.stdout) : ~MatchesSentinel(result.stdout[i])

C11_ByteCapTruncates ==
    /\ \A t \in Calls : exec[t].pc = "reading" => exec[t].total_bytes <= exec[t].max_output_bytes
    /\ (Returned /\ result.total_bytes > result.max_output_bytes) => result.truncated

\* C12: the stdout that execute_command returns is no longer than the call's byte
\* cap, whatever the sizes of the chunks the remote's output arrives in.
C12_StdoutWithinCap == Returned => Len(result.stdout) <= result.max_output_bytes

\* the messages of _create_timeout_result and _create_sudo_timeout_result
TimeoutMessages == {"Command timed out", "Sudo command timed out"}

\* call t ends in this step with the hang watchdog's result
HangFires(t) ==
    /\ InFlight(t) /\ exec'[t].pc = "idle"
    /\ history' # history
    /\ result'.kind = "result" /\ result'.stderr \in TimeoutMessages

\* C13: the hang watchdog ends a command only if no byte was read from the channel
\* during the preceding 10 seconds (a byte read exactly 10 seconds before counts as
\* outside the window).
C13_HangOnlyAfterSilence ==
    [][\A t \in Calls : HangFires(t) => exec[t].elapsed - exec[t].last_recv >= hanging_seconds]_vars

\* the next iteration of the call with frame c takes the hanging branch and finds
\* no password manager to try, or one tried less than a second ago
WatchdogDue(c) ==
    /\ c.pc = "reading" /\ c.elapsed < c.timeout_seconds
    /\ IsHanging(c)
    /\ ~(c.mgr # "none" /\ c.elapsed - c.last_password_check_time > hanging_check_interval)

\* C14: when the hang watchdog fires for a command that is not a sudo command,
\* execute_command returns a CommandResult with exit_status 1, the timed-out message
\* in stderr and truncated = false, the mutex is free and the session's connected
\* flag and channel are as they were, so that a further execute_command is accepted.
C14_HangReturnsResult ==
    [][\A t \in Calls :
          (WatchdogDue(exec[t]) /\ ~exec[t].is_sudo_command /\ exec'[t].pc = "idle") =>
              /\ result'.kind = "result"
              /\ result'.exit_status = 1 /\ result'.stderr = "Command timed out"
              /\ result'.stdout = <<>> /\ ~result'.truncated
              /\ lock' = None
              /\ UNCHANGED <<connected, channel>>]_vars

\* the watchdog ended a command, and the command called after it on the session
\* was sent and returned with the sentinel's status
C14_Witness ==
    /\ history = <<"Command timed out", "returned">>
    /\ Returned /\ result.exit_status = 0
    /\ connected[Self] /\ lock = None

\* the loop of call t runs (an iteration, or the rest of one after the callback)
LoopRan(t) ==
    /\ InFlight(t) /\ exec'[t] # exec[t]
    /\ exec'[t].pc = "idle" \/ exec'[t].elapsed = exec[t].elapsed

\* the iteration that call t runs next receives a chunk
ChunkDue(c) ==
    /\ c.pc = "reading" /\ c.elapsed < c.timeout_seconds /\ ~IsHanging(c)
    /\ channel[Self] /\ chan_in # <<>>

\* a known prompt is in the buffer and no configured handler supplies a password
\* for it: there is no manager, or no handler of the manager detects the prompt
Unanswerable(c) ==
    /\ HasKnownPrompt(c.buffer)
    /\ c.mgr = "none" \/ ~HasCue(c.buffer)

\* the interactive callback of call t comes back without a password
Unsupplied(t) == \E answer \in {"cancelled", "error"} : Continue(t, Resumed(World(exec[t]), answer))

PasswordErrors ==
    {"Password required but not provided", "Password request was cancelled", "Password callback error"}

\* execute_command of call t returns the password error, the session stays connected
ReturnsPasswordError(t) ==
    /\ exec'[t].pc = "idle"
    /\ result'.kind = "result" /\ result'.exit_status = 1 /\ result'.stderr \in PasswordErrors
    /\ UNCHANGED <<connected, channel>>

\* C15: in every handler configuration, when the loop receives a known password
\* prompt for which no configured handler supplies a password (none detects it, or
\* the interactive callback comes back cancelled or failed), that same iteration
\* ends the loop and execute_command returns exit status 1 with the password error
\* in stderr, the session still connected.
C15_UnansweredPromptStops ==
    [][\A t \in Calls :
          /\ (ChunkDue(exec[t]) /\ Unanswerable(Recv(World(exec[t])).c) /\ LoopRan(t))
                => ReturnsPasswordError(t)
          /\ (exec[t].pc = "asking" /\ channel[Self] /\ Unsupplied(t))
                => ReturnsPasswordError(t)]_vars
\* the execute_command of call t waits for the answer to its password request
Waiting(t) == exec[t].pc = "asking" /\ AskedId \in RequestIds /\ waiter[AskedId].pc = "waiting"

\* provide_password(id, ...) is called
Provided(id) ==
    /\ Len(calls'[id]) = Len(calls[id]) + 1
    /\ calls'[id][Len(calls'[id])].op = "provide"

\* C16: with interactive prompting and no sudo password, while execute_command
\* ('sudo id') waits at the sudo prompt the broker lists exactly one request, of
\* prompt_type 'sudo' and with the session's id; provide_password for it returns
\* True; the loop then writes the password and a newline to the channel; and the
\* call returns exit status 0 once it has received the sentinel of a successful run.
C16_SudoRequestListed ==
    /\ [](\A t \in Calls : Waiting(t) =>
             /\ ListedIds = {AskedId}
             /\ pending_requests[AskedId].prompt_type = "sudo"
             /\ pending_requests[AskedId].session_id = "s1")
    /\ [][\A t \in Calls :
            /\ (Waiting(t) /\ ~FutureDone(future[AskedId]) /\ Provided(AskedId))
                  => calls'[AskedId][Len(calls'[AskedId])].ret
            /\ (exec[t].pc = "asking" /\ channel[Self] /\ LoopRan(t)
                  /\ CallbackAnswer(waiter[AskedId]) = "password")
                  => sent' = Written(sent, "password")]_vars
    /\ [](Returned /\ result.premise /\ result.N = 0 /\ Fulfilled(1) => result.exit_status = 0)
\* C17: when cancel_request is called for the request an execute_command waits on,
\* the request resolves as None; the loop, when it goes on, records the password
\* failure and stops, and execute_command returns exit status 1; no password is
\* written to the channel for that command.
C17_CancelStopsLoop ==
    /\ [](\A id \in RequestIds :
             (Cancelled(id) /\ waiter[id].pc = "returned") => waiter[id].ret = None)
    /\ [][\A t \in Calls :
            (exec[t].pc = "asking" /\ Cancelled(AskedId) /\ LoopRan(t)) =>
                /\ exec'[t].pc = "idle"
                /\ result'.kind = "result" /\ result'.exit_status = 1
                /\ result'.stderr = "Password request was cancelled"]_vars
    /\ [](Cancelled(1) => ~HasWord(sent, "password"))
\* the iteration that call t runs next reads from the dropped connection
RecvFails(c) == ChunkDue(c) /\ Reset(chan_in)

\* an execute_command is called while no other one runs, and ends
CalledAndEnded == (\A t \in Calls : exec[t].pc = "idle") /\ Len(history') = Len(history) + 1

\* C18: when reading from the channel fails during execute_command, the failure
\* is raised to the caller and the session's connected flag is False afterwards;
\* every execute_command called on the session after that fails as not connected;
\* the other session's state is not touched.
C18_ReadFailureDisconnects ==
    [][/\ \A t \in Calls :
             (RecvFails(exec[t]) /\ LoopRan(t)) =>
                 /\ result'.kind = "raised"
                 /\ ~connected'[Self]
                 /\ connected'[Other] = connected[Other] /\ channel'[Other] = channel[Other]
       /\ (Reset(chan_in) /\ Contains(history, <<"raised">>) /\ CalledAndEnded) =>
             /\ result'.kind = "raised" /\ result'.stderr = "Session not connected"
             /\ connected'[Other] = connected[Other] /\ channel'[Other] = channel[Other]]_vars
(***************************************************************************)
(* The policy engine on its own: validate_command is called on a command,  *)
(* under the configured level.                                             *)
(***************************************************************************)
\* validate_command(command) returns its CommandValidationResult
PolicyValidate(command) ==
    /\ Len(history) < MaxCmds
    /\ LET v == ValidateCommand(command, permissibility_level)
       IN /\ result' = [kind |-> "validation", command |-> command,
                        allowed |-> v.allowed, reason |-> v.reason]
          /\ Ended(IF v.allowed THEN "allowed" ELSE v.reason)
    /\ UNCHANGED <<lock, exec, chan_in, remote, sent, connected, channel, last_used>>

NextPolicy ==
    \/ \E command \in Commands : PolicyValidate(command) /\ SessFrame

SpecPolicy == InitSession /\ [][NextPolicy]_vars

\* validate_command has returned
Validated == result.kind = "validation"

Allowed(level, command) == ValidateCommand(command, level).allowed

RedactLines == {"o", "secret", "apikey", "$"}
MaxRedactLen == 3
RECURSIVE Buffers(_)
Buffers(n) ==
    IF n = 0 THEN {<<>>}
    ELSE Buffers(n - 1) \cup {Append(b, l) : b \in Buffers(n - 1), l \in RedactLines}

\* execute_command returns the CommandResult built from `buffer`
CreateResult(buffer) ==
    /\ Len(history) < MaxCmds
    /\ LET r == CreateCommandResult([error |-> "", buffer |-> buffer, exit_status |-> 0])
       IN result' = [kind |-> "result", stdout |-> r.stdout, stderr |-> r.stderr,
                     exit_status |-> r.exit_status, truncated |-> r.truncated,
                     O |-> buffer, N |-> 0, premise |-> FALSE,
                     total_bytes |-> Len(buffer), max_output_bytes |-> Len(buffer)]
    /\ Ended("returned")
    /\ UNCHANGED <<lock, exec, chan_in, remote, sent, connected, channel, last_used>>

NextRedact ==
    \/ \E buffer \in Buffers(MaxRedactLen) : CreateResult(buffer) /\ SessFrame

SpecRedact == InitSession /\ [][NextRedact]_vars

\* the lines of the buffer that reach stdout, before redaction
Shown == SubSeq(CleanOutput(result.O), 1, Min(Len(CleanOutput(result.O)), max_output_lines))

\* C22: redact_secrets replaces every `sk-` key of forty-eight letters and digits
\* by the token [REDACTED_API_KEY], not by another token, and the key text is
\* absent from the stdout of the returned CommandResult.
C22_ApiKeyRedacted ==
    result.kind = "result" =>
        /\ \A i \in 1..Len(Shown) :
              Shown[i] = "apikey" => result.stdout[i] = "[REDACTED_API_KEY]"
        /\ ~HasWord(result.stdout, "apikey")
\* execute_command of call t has been entered and has not returned or raised
Running(t) == exec[t].pc # "idle"

\* the deadline start + timeout of the call has passed when its loop tests it
DeadlinePassed(c) == c.pc = "reading" /\ ~(c.elapsed < c.timeout_seconds)

\* every request id of the model is in use: the callback can ask no more
RequestsExhausted == n_requests = MaxRequests

\* C24: every execute_command call on a connected session eventually returns a
\* CommandResult or raises, and its read loop begins no new iteration once the
\* deadline start + timeout has passed (the loop returns what it has, reading and
\* writing nothing more), also while a password request is outstanding at the
\* broker and when the remote never emits the sentinel.  (Nothing is said of a
\* call once all the request ids are in use.)
C24_CallsTerminate ==
    /\ \A t \in Calls : Running(t) ~> (~Running(t) \/ RequestsExhausted)
    /\ [][\A t \in Calls :
            (DeadlinePassed(exec[t]) /\ LoopRan(t)) =>
                /\ exec'[t].pc = "idle" /\ result'.kind = "result"
                /\ chan_in' = chan_in /\ sent' = sent /\ n_requests' = n_requests]_vars
\* call t waits in `with self.lock:` for the session's lock
WaitsForLock(t) == exec[t].pc = "blocked"

\* C25: a second execute_command issued while a first is suspended in its read
\* loop waits for the lock without blocking the event loop: the first call goes on
\* and completes, then the second runs, and a request_password that waits at the
\* broker meanwhile is still served (answered, cancelled or timed out).
C25_SecondCallWaits ==
    /\ \A t \in Calls : WaitsForLock(t) ~> ~WaitsForLock(t)
    /\ \A t \in Calls : (lock = t /\ \E u \in Calls : WaitsForLock(u)) ~> ~Running(t)
    /\ \A id \in RequestIds :
          (waiter[id].pc = "waiting" /\ \E u \in Calls : WaitsForLock(u))
              ~> waiter[id].pc # "waiting"
\* C26: while an execute_command holds the session's lock, no operation
\* (remove_session, eviction by create_session, cleanup_expired_sessions,
\* disconnect_all_sessions) changes the session's channel or connected flag; such
\* an operation takes effect on the session only after the command has returned.
C26_LockGuardsSession ==
    [][lock # None =>
          /\ connected'[Self] = connected[Self]
          /\ channel'[Self] = channel[Self]]_vars
\* C27: in every state observable at an await point (during connect, after a
\* failed connect, after disconnect), a session's channel is non-null exactly when
\* its connected flag is true.
C27_ChannelIffConnected == \A o \in DOMAIN connected : channel[o] <=> connected[o]

\* where a session object stands in new -> connecting -> connected -> disconnected
Lifecycle(pc, conn) ==
    CASE pc = "new" -> "new"
      [] pc \in {"dialing", "prompt"} -> "connecting"
      [] conn -> "connected"
      [] OTHER -> "disconnected"

LifecycleMoves ==
    {<<"new", "connecting">>, <<"connecting", "connected">>,
     <<"connecting", "disconnected">>, <<"connected", "disconnected">>}

\* C28: a session's lifecycle only moves new -> connecting -> connected ->
\* disconnected (a failed connect goes from connecting to disconnected), and
\* disconnected is terminal: no later operation on the session, connect included,
\* makes its connected flag true again.
C28_LifecycleForward ==
    [][\A o \in (DOMAIN conn_pc) \cap (DOMAIN conn_pc') :
          LET before == Lifecycle(conn_pc[o], connected[o])
              after == Lifecycle(conn_pc'[o], connected'[o])
          IN /\ before # after => <<before, after>> \in LifecycleMoves
             /\ before = "disconnected" => ~connected'[o]]_vars
\* the passwords among the writes to the channel
Passwords_written(out) == Cardinality({i \in 1..Len(out) : out[i] = "password"})

\* the iteration that call t runs writes the sudo password with nothing in the
\* buffer and nothing to receive: no prompt is present, the write is proactive
ProactiveWrite(t) ==
    /\ exec[t].pc = "reading" /\ exec[t].is_sudo_command /\ exec[t].mgr = "sudo"
    /\ exec[t].buffer = <<>> /\ chan_in = <<>>
    /\ LoopRan(t)
    /\ Passwords_written(sent') > Passwords_written(sent)

\* C29: during one execute_command of a sudo command the configured password is
\* written proactively (no prompt in the buffer) at most once, however long the
\* command stays silent: every proactive write happens with the latch
\* sudo_password_sent clear, is the only one of its iteration, and sets the latch.
C29_ProactiveOnce ==
    [][\A t \in Calls :
          ProactiveWrite(t) =>
              /\ ~exec[t].sudo_password_sent
              /\ Passwords_written(sent') = Passwords_written(sent) + 1
              /\ exec'[t].pc = "idle" \/ exec'[t].sudo_password_sent]_vars
\* the iteration that call t runs next receives a chunk that brings a password cue
\* into the buffer, and the write log has room for the session's answer
CueDue(t) ==
    /\ ChunkDue(exec[t]) /\ HasCue(Recv(World(exec[t])).c.buffer)
    /\ Len(sent) + 1 < MaxSent

\* C30: when a literal sudo password is available for the command, a sudo prompt
\* in the output is answered by the sudo handler, first in the chain, with that
\* password, and no request is made to the broker: the interactive callback is
\* never awaited.
C30_SudoHandlerFirst ==
    [][\A t \in Calls :
          (exec[t].mgr = "sudo" /\ LoopRan(t)) =>
              /\ exec'[t].pc # "asking"
              /\ CueDue(t) => Passwords_written(sent') > Passwords_written(sent)]_vars

\* a call with the sudo password has received sudo's prompt and has answered it:
\* the nudge and then the password were written, and the buffer was cleared
C30_Witness ==
    \E t \in Calls :
        /\ exec[t].mgr = "sudo" /\ exec[t].pc = "reading"
        /\ sent = <<"command", "newline", "password">>
        /\ exec[t].buffer = <<>>
        /\ exec[t].total_bytes > 0
\* C36: when the deadline start + timeout is reached before a sentinel, a cap
\* overrun or a password failure, execute_command raises or returns a result that
\* carries an error text in stderr, and the text is not the hang watchdog's: the
\* deadline does not come back as an ordinary result with nothing to tell it by.
C36_DeadlineSurfaced ==
    [][\A t \in Calls :
          (DeadlinePassed(exec[t]) /\ LoopRan(t)) =>
              /\ result'.kind = "raised" \/ (result'.kind = "result" /\ result'.stderr # "")
              /\ result'.stderr \notin TimeoutMessages]_vars

\* C37: a connect tool call whose SSH connection fails leaves the registry as it
\* was before the call: its session_id is not left registered, and the session
\* its create_session evicted, if any, is registered.
C37_FailedConnectLeavesRegistry ==
    [][\A k \in BagToSet(reg_tasks) :
          ToolConnectFails(k) =>
              /\ k.sid \notin Ids'
              /\ k.victim # None => k.victim \in Ids']_vars

\* C38: the session's lock is held only by a call that is inside its
\* `with self.lock:` block, so whenever no execute_command is in progress on the
\* session the lock is free, whichever way the calls before ended (a result, the
\* hang watchdog's result, a password failure, the cap, the deadline, an exception
\* raised from the read loop).
C38_LockReleased ==
    /\ \A t \in Calls : lock = t => InFlight(t)
    /\ (\A t \in Calls : ~Running(t)) => lock = None

\* the session was disconnected under a running command, the command raised out of
\* its read loop, no call is in progress and the lock is free
C38_Witness ==
    /\ history = <<"raised">>
    /\ result.kind = "raised" /\ result.stderr = "AttributeError"
    /\ \A t \in Calls : ~Running(t)
    /\ lock = None

(***************************************************************************)
(* What execute_command writes to the channel (SpecSanitize):              *)
(* _validate_command raises unless the command is allowed,                 *)
(* _create_execution_context keeps validate_command(command).sanitized_cmd *)
(* and _send_command frames and sends that text.                           *)
(***************************************************************************)
\* the commands above, and commands with a NUL byte or more than max_length tokens
RawCommands ==
    Commands \cup
    {<<"ls", "NUL">>, <<"ls", "&", "NUL", "&", "id">>, <<"rm", "-rf", "NUL", "/">>,
     <<"sudo", "rm", "-rf", "/", "-v">>, <<"ls", "-l", "-a", "-h", "-t">>}

\* execute_command up to the write of _send_command, on the channel's side
SendSanitized(command) ==
    /\ Len(history) < MaxCmds
    /\ LET v == ValidateCommand(command, permissibility_level)
       IN /\ result' = [kind |-> "validation", command |-> v.sanitized_cmd,
                        allowed |-> v.allowed, reason |-> v.reason]
          /\ Ended(IF v.allowed THEN "sent" ELSE v.reason)
    /\ UNCHANGED <<lock, exec, chan_in, remote, sent, connected, channel, last_used>>

NextSanitize ==
    \/ \E command \in RawCommands : SendSanitized(command) /\ SessFrame

SpecSanitize == InitSession /\ [][NextSanitize]_vars

C40_DisconnectAllLeavesRegistered ==
    [][DisconnectAllSessions =>
          /\ \A sid \in Ids' : ~connected'[sessions'[sid]] /\ ~channel'[sessions'[sid]]
          /\ sessions' = sessions
          /\ session_creation_times' = session_creation_times]_vars

====
